---- MODULE Spec2Model ----
(***************************************************************************)
(* A model of the ai-router request pipeline: the per-vendor circuit       *)
(* breaker, the per-(vendor, model) rate-limit tracker, the router's       *)
(* attempt loop and the deferred-retry queue.                              *)
(*                                                                         *)
(* Time is the value of Date.now() in milliseconds.  JavaScript runs one   *)
(* callback at a time, so every action below is one run of the code from   *)
(* a resumption (a call, a timer firing, an awaited promise settling) to   *)
(* the next await or return.                                               *)
(***************************************************************************)
EXTENDS Integers, Sequences, FiniteSets, TLC

\* ---------------------------------------------------------------- bounds
\* Configuration values (constructor parameters), chosen small.
FailureThreshold == 2
CooldownMs == 2000
LowThreshold == 1
MaxSize == 2
TimeoutMs == 2000
AsyncThresholdMs == 1000
\* Bounds of the exploration.
MaxTicks == 3
MaxConsec == 4
MaxReqs == 2
MaxStarts == 2
MaxJobs == 1
MaxDrains == 1
\* (the queue alone)
MaxCallers == 2
MaxCalls == 3
MaxQueueJobs == 3
MaxQueueDrains == 2
\* (the queue on the shared store)
MaxRedisJobs == 3
MaxRedisCallers == 1
MaxRedisDrains == 1

\* ------------------------------------------------------ program constants
MsPerSecond == 1000
DefaultRetryAfterMs == 60000
JobRetentionMs == 60000
DefaultMaxTokens == 4096
ResultTtlMs == 3600000

\* ------------------------------------------------------------- universe
Vendors == {"openai", "anthropic"}

\* A nullable number: Null, or <<n>>.
Null == <<>>
Some(n) == <<n>>
IsNull(x) == x = <<>>
Val(x) == x[1]

Max(a, b) == IF a >= b THEN a ELSE b
Min(a, b) == IF a <= b THEN a ELSE b

\* The model names the catalog maps for the one requested model "gpt-4o".
ModelOf(vendor) == IF vendor = "openai" THEN "gpt-4o" ELSE "claude-opus-4-6"

makeKey(provider, model) == <<provider, model>>
Keys == {makeKey(v, ModelOf(v)) : v \in Vendors}

VARIABLES
  now,        \* Date.now()
  ticks,      \* how many times the clock has advanced
  circuits,   \* CircuitBreaker.circuits: vendor -> ProviderCircuit
  consec,     \* history: 5xx failures recorded for a vendor since its last success
  openLog,    \* history: when the vendor's breaker last went to open (0: never)
  probeOwner, \* history: who holds the half-open probe isAvailable granted
  state,      \* RateLimitTracker.state: key -> ProviderModelState
  last429,    \* history: the 429 that was the key's last update, if it was one
  req,        \* the callers of Router.execute: where each is, and what it got
  started,    \* how many execute calls have been made
  jobs,       \* the QueueJob objects: RequestQueue.jobs, and those drain still holds
  drains,     \* the running RequestQueue.drain passes
  drainTimer, \* RequestQueue.drainTimer: Null, or the instant it is set for
  drainFn,    \* RequestQueue.drainFn: "router" (the Router's closure) or "mock"
  redis,      \* the shared store: the pending list, the job hashes, the results
  dispatchLog, \* history: the jobs handed to the drain function, in that order
  peer,        \* a second running instance on the same shared store
  wire         \* one adapter call and the reply of its route to the client

timeVars == <<now, ticks>>
cbVars == <<circuits, consec, openLog, probeOwner>>
rlVars == <<state, last429>>
rtVars == <<req, started>>
qVars == <<jobs, drains, drainTimer, drainFn, redis, dispatchLog, peer, wire>>
vars == <<now, ticks, circuits, consec, openLog, probeOwner, state, last429,
          req, started, jobs, drains, drainTimer, drainFn, redis, dispatchLog, peer,
          wire>>

\* ------------------------------------------------------- circuit breaker
NewCircuit ==
  [state |-> "closed", failureCount |-> 0, openedAt |-> 0,
   halfOpenTestInFlight |-> FALSE]

\* isAvailable: the value returned.
isAvailableRet(c, t) ==
  CASE c.state = "closed" -> TRUE
    [] c.state = "open" -> t - c.openedAt >= CooldownMs
    [] c.state = "half-open" -> ~c.halfOpenTestInFlight

\* isAvailable: the circuit it leaves.
isAvailable(c, t) ==
  CASE c.state = "closed" -> c
    [] c.state = "open" ->
         IF t - c.openedAt >= CooldownMs
           THEN [c EXCEPT !.state = "half-open", !.halfOpenTestInFlight = TRUE]
           ELSE c
    [] c.state = "half-open" ->
         IF ~c.halfOpenTestInFlight
           THEN [c EXCEPT !.halfOpenTestInFlight = TRUE]
           ELSE c

\* A plausible slip: the failure count survives a success.
recordSuccessKeepsCount(c) ==
  LET c1 == [c EXCEPT !.halfOpenTestInFlight = FALSE]
  IN IF c1.state # "closed"
       THEN [c1 EXCEPT !.state = "closed", !.openedAt = 0]
       ELSE c1

recordSuccess(c) ==
  LET c1 == [c EXCEPT !.failureCount = 0, !.halfOpenTestInFlight = FALSE]
  IN IF c1.state # "closed"
       THEN [c1 EXCEPT !.state = "closed", !.openedAt = 0]
       ELSE c1

\* A plausible slip: every failure status is counted.
recordFailureAnyStatus(c, statusCode, t) ==
  IF c.state = "half-open"
    THEN [c EXCEPT !.state = "open", !.openedAt = t, !.halfOpenTestInFlight = FALSE]
    ELSE LET n == c.failureCount + 1
         IN IF n >= FailureThreshold
              THEN [c EXCEPT !.failureCount = n, !.state = "open", !.openedAt = t]
              ELSE [c EXCEPT !.failureCount = n]

recordFailure(c, statusCode, t) ==
  IF statusCode = 429 THEN c
  ELSE IF statusCode < 500 THEN c
  ELSE IF c.state = "half-open"
    THEN [c EXCEPT !.state = "open", !.openedAt = t, !.halfOpenTestInFlight = FALSE]
    ELSE LET n == c.failureCount + 1
         IN IF n >= FailureThreshold
              THEN [c EXCEPT !.failureCount = n, !.state = "open", !.openedAt = t]
              ELSE [c EXCEPT !.failureCount = n]

\* History kept beside the breaker (not program state).
NoOwner == <<>>
ConsecAfter(n, statusCode) == IF statusCode >= 500 THEN n + 1 ELSE n
OpenLogAfter(old, c, c2, t) ==
  IF c2.state = "open" /\ (c.state # "open" \/ c2.openedAt # c.openedAt) THEN t ELSE old

\* ---------------------------------------------------- rate-limit tracker
NoState ==
  [present |-> FALSE, coolingDown |-> FALSE, cooldownUntil |-> 0,
   remainingRequests |-> Null, resetRequestsAt |-> Null]

\* getOrCreate: the entry, created if the map has none.
getOrCreate(s) == IF s.present THEN s ELSE [NoState EXCEPT !.present = TRUE]

\* A retry-after header: absent, integer seconds, or an HTTP date (epoch ms).
NoRetryAfter == [kind |-> "absent", v |-> 0]
Seconds(k) == [kind |-> "seconds", v |-> k]
HttpDate(d) == [kind |-> "date", v |-> d]

\* A plausible slip: the seconds are taken for milliseconds.
parseRetryAfterNoScale(value, t) ==
  CASE value.kind = "absent" -> DefaultRetryAfterMs
    [] value.kind = "seconds" -> value.v
    [] value.kind = "date" -> Max(0, value.v - t)

parseRetryAfter(value, t) ==
  CASE value.kind = "absent" -> DefaultRetryAfterMs
    [] value.kind = "seconds" -> value.v * MsPerSecond
    [] value.kind = "date" -> Max(0, value.v - t)

\* Response headers: retry-after, the vendor's remaining-requests counter and its
\* reset (OpenAI: a duration in seconds; Anthropic: an instant in epoch ms).
Headers(ra, rem, reset) == [retryAfter |-> ra, remaining |-> rem, reset |-> reset]
NoHeaders == Headers(NoRetryAfter, Null, Null)

parseDuration(secs) == secs * MsPerSecond

extractOpenAIRateLimitHeaders(h, t) ==
  [remainingRequests |-> h.remaining,
   resetRequestsAt |-> IF IsNull(h.reset) THEN Null ELSE Some(t + parseDuration(Val(h.reset)))]

extractAnthropicRateLimitHeaders(h, t) ==
  [remainingRequests |-> h.remaining, resetRequestsAt |-> h.reset]

parseHeaders(provider, h, t) ==
  CASE provider = "openai" -> extractOpenAIRateLimitHeaders(h, t)
    [] provider = "anthropic" -> extractAnthropicRateLimitHeaders(h, t)
    [] OTHER -> [remainingRequests |-> Null, resetRequestsAt |-> Null]

update(s, provider, h, statusCode, t) ==
  LET s0 == getOrCreate(s)
  IN IF statusCode = 429
       THEN [s0 EXCEPT !.coolingDown = TRUE,
                       !.cooldownUntil = t + parseRetryAfter(h.retryAfter, t)]
       ELSE LET parsed == parseHeaders(provider, h, t)
                s1 == [s0 EXCEPT !.remainingRequests = parsed.remainingRequests,
                                 !.resetRequestsAt = parsed.resetRequestsAt]
            IN IF s1.coolingDown /\ t >= s1.cooldownUntil
                 THEN [s1 EXCEPT !.coolingDown = FALSE, !.cooldownUntil = 0]
                 ELSE s1

\* shouldAvoid: the value returned.
shouldAvoidRet(s, t) ==
  IF ~s.present THEN FALSE
  ELSE IF s.coolingDown /\ t < s.cooldownUntil THEN TRUE
  ELSE ~IsNull(s.remainingRequests) /\ Val(s.remainingRequests) < LowThreshold

\* shouldAvoid: the entry it leaves (an elapsed cooldown is cleared).
shouldAvoid(s, t) ==
  IF s.present /\ s.coolingDown /\ ~(t < s.cooldownUntil)
    THEN [s EXCEPT !.coolingDown = FALSE, !.cooldownUntil = 0]
    ELSE s

\* History: the 429 that was the key's last update.
No429 == [is |-> FALSE, at |-> 0, k |-> 0]
Last429After(h, statusCode, t) ==
  IF statusCode = 429 /\ h.retryAfter.kind = "absent" THEN [is |-> TRUE, at |-> t, k |-> 60]
  ELSE IF statusCode = 429 /\ h.retryAfter.kind = "seconds"
    THEN [is |-> TRUE, at |-> t, k |-> h.retryAfter.v]
  ELSE No429

\* ------------------------------------------------------ program constants
\* (the queue's and the tracker's fixed delays)
EarliestDefaultMs == 60000

\* ---------------------------------------------------------------- router
Reqs == DOMAIN req
JobIds == DOMAIN jobs
DrainIds == DOMAIN drains

ReqOwner(r) == <<"req", r>>
DrainOwner(d) == <<"drain", d>>

RequestedModel == "gpt-4o"
providerPriority == <<"openai", "anthropic">>
Adapters == Vendors

\* getModelForProvider: the vendor's name for the requested model's class, or Null.
getModelForProvider(modelName, provider) ==
  IF modelName = "gpt-4o" THEN Some(ModelOf(provider)) ELSE Null

RECURSIVE mappedFrom(_, _)
mappedFrom(requestedModel, i) ==
  IF i > Len(providerPriority) THEN <<>>
  ELSE LET provider == providerPriority[i]
           model == getModelForProvider(requestedModel, provider)
       IN IF provider \notin Adapters \/ IsNull(model)
            THEN mappedFrom(requestedModel, i + 1)
            ELSE <<[provider |-> provider, model |-> Val(model)]>>
                   \o mappedFrom(requestedModel, i + 1)

RECURSIVE rawFrom(_, _)
rawFrom(requestedModel, i) ==
  IF i > Len(providerPriority) THEN <<>>
  ELSE IF providerPriority[i] \in Adapters
    THEN <<[provider |-> providerPriority[i], model |-> requestedModel]>>
    ELSE rawFrom(requestedModel, i + 1)

buildFallbackChain(requestedModel) ==
  LET chain == mappedFrom(requestedModel, 1)
  IN IF Len(chain) = 0 THEN rawFrom(requestedModel, 1) ELSE chain

Chain == buildFallbackChain(RequestedModel)
KeyAt(i) == makeKey(Chain[i].provider, Chain[i].model)

\* One entry of a pass's record of what it did with candidate i.
Entry(i, ev) == [i |-> i, ev |-> ev]

\* History: a probe is held by the pass whose isAvailable call made open half-open.
ProbeAfter(owner, cbOld, cbNew, po) ==
  [v \in Vendors |->
     IF cbOld[v].state = "open" /\ cbNew[v].state = "half-open" THEN owner ELSE po[v]]

\* The candidate after a retriable failure of candidate i.
\* A plausible slip: the same candidate is tried again.
AfterRetriableSame(i) == i

AfterRetriable(i) == i + 1

\* A plausible slip: the breaker is not consulted.
RECURSIVE RunLoopNoBreaker(_, _, _, _, _)
RunLoopNoBreaker(i, cb, st, t, log) ==
  IF i > Len(Chain) THEN [circuits |-> cb, state |-> st, idx |-> i, log |-> log]
  ELSE LET key == KeyAt(i)
           st1 == [st EXCEPT ![key] = shouldAvoid(@, t)]
       IN IF shouldAvoidRet(st[key], t)
            THEN RunLoopNoBreaker(i + 1, cb, st1, t, Append(log, Entry(i, "skipRL")))
            ELSE [circuits |-> cb, state |-> st1, idx |-> i,
                  log |-> Append(log, Entry(i, "call"))]

\* The loop of executeProviderChain from candidate i up to its next await (an
\* adapter call) or its end (the chain is exhausted): idx is the candidate called,
\* or Len(Chain) + 1.  Every vendor of the chain has an adapter (buildFallbackChain
\* keeps no other), so the loop's missing-adapter branch is never taken.
RECURSIVE RunLoop(_, _, _, _, _)
RunLoop(i, cb, st, t, log) ==
  IF i > Len(Chain) THEN [circuits |-> cb, state |-> st, idx |-> i, log |-> log]
  ELSE LET v == Chain[i].provider
           key == KeyAt(i)
           cb1 == [cb EXCEPT ![v] = isAvailable(@, t)]
           st1 == [st EXCEPT ![key] = shouldAvoid(@, t)]
       IN IF ~isAvailableRet(cb[v], t)
            THEN RunLoop(i + 1, cb1, st, t, Append(log, Entry(i, "skipCB")))
          ELSE IF shouldAvoidRet(st[key], t)
            THEN RunLoop(i + 1, cb1, st1, t, Append(log, Entry(i, "skipRL")))
          ELSE [circuits |-> cb1, state |-> st1, idx |-> i,
                log |-> Append(log, Entry(i, "call"))]

\* The first pass of a chain: the loop from its first candidate.
StartLoop(cb, st, t) == RunLoop(1, cb, st, t, <<>>)

\* The statuses after which the next candidate is tried.
\* A plausible slip: only a rate limit falls back.
RetriableOnly429(statusCode) == statusCode = 429

\* A plausible slip: every error status falls back.
RetriableAnyError(statusCode) == statusCode >= 400

Retriable(statusCode) == statusCode = 429 \/ statusCode >= 500

RECURSIVE earliestFrom(_, _, _, _, _)
earliestFrom(candidates, i, st, t, earliest) ==
  IF i > Len(candidates) THEN earliest
  ELSE LET s == st[makeKey(candidates[i].provider, candidates[i].model)]
       IN IF ~s.present THEN t
          ELSE IF s.coolingDown /\ s.cooldownUntil > 0
            THEN earliestFrom(candidates, i + 1, st, t, Min(earliest, s.cooldownUntil))
          ELSE IF ~IsNull(s.remainingRequests) /\ Val(s.remainingRequests) < LowThreshold
            THEN earliestFrom(candidates, i + 1, st, t,
                              IF ~IsNull(s.resetRequestsAt)
                                THEN Min(earliest, Val(s.resetRequestsAt))
                                ELSE earliest)
          ELSE t

earliestAvailableMs(candidates, st, t) ==
  earliestFrom(candidates, 1, st, t, t + EarliestDefaultMs)

\* History: every candidate of the chain is in the cooldown a 429 gave it.
AllCooling(st, t) ==
  \A i \in 1..Len(Chain) :
    /\ st[KeyAt(i)].present
    /\ st[KeyAt(i)].coolingDown
    /\ t < st[KeyAt(i)].cooldownUntil

\* ----------------------------------------------------------------- queue
\* What enqueue returns in mode async: { mode, jobId, estimatedWaitMs }; the id
\* names a job of the map ("memory") or of the shared store ("store").
Handle(where, id, estimatedWaitMs) ==
  [where |-> where, id |-> id, estimatedWaitMs |-> estimatedWaitMs]
NoHandle == Handle("none", 0, 0)

IdleReq ==
  [pc |-> "idle", idx |-> 0, log |-> <<>>, out |-> "none", via |-> "none", job |-> 0,
   ret |-> NoHandle]

NoJob ==
  [used |-> FALSE, inMap |-> FALSE, status |-> "pending", createdAt |-> 0,
   timeoutAt |-> 0, estimatedWaitMs |-> 0, sync |-> FALSE, owner |-> 0,
   settled |-> FALSE, out |-> "none", via |-> "none", cooling |-> FALSE]

IdleDrain == [pc |-> "idle", snap |-> <<>>, pos |-> 0, idx |-> 0, log |-> <<>>]

Terminal == {"done", "error", "expired"}

\* this.jobs.size
Size(js) == Cardinality({j \in DOMAIN js : js[j].inMap})

\* [...this.jobs.values()].filter(pending).sort(createdAt): the sort is stable and
\* the map iterates in insertion order, which is the order of the job ids.
RECURSIVE SortByCreatedAt(_, _)
SortByCreatedAt(js, S) ==
  IF S = {} THEN <<>>
  ELSE LET m == CHOOSE j \in S :
                  \A k \in S : \/ js[j].createdAt < js[k].createdAt
                               \/ js[j].createdAt = js[k].createdAt /\ j <= k
       IN <<m>> \o SortByCreatedAt(js, S \ {m})

pendingJobs(js) ==
  SortByCreatedAt(js, {j \in DOMAIN js : js[j].inMap /\ js[j].status = "pending"})

\* The program's state but the clock and the timer, threaded through a handler.
World ==
  [circuits |-> circuits, consec |-> consec, openLog |-> openLog,
   probeOwner |-> probeOwner, state |-> state, last429 |-> last429,
   req |-> req, jobs |-> jobs, drains |-> drains, dispatchLog |-> dispatchLog]

SetWorld(w) ==
  \E x \in {w} :
    /\ circuits' = x.circuits
    /\ consec' = x.consec
    /\ openLog' = x.openLog
    /\ probeOwner' = x.probeOwner
    /\ state' = x.state
    /\ last429' = x.last429
    /\ req' = x.req
    /\ jobs' = x.jobs
    /\ drains' = x.drains
    /\ dispatchLog' = x.dispatchLog

\* job.resolve?.(result) / job.reject?.(error): the blocked caller of execute gets
\* the job's outcome; a promise settles once.
Settle(w, j, out, via) ==
  LET job == w.jobs[j]
  IN IF job.sync /\ ~job.settled /\ job.owner \in DOMAIN w.req
       THEN [w EXCEPT !.req[job.owner] = [@ EXCEPT !.pc = "done", !.out = out, !.via = via],
                      !.jobs[j].settled = TRUE]
       ELSE [w EXCEPT !.jobs[j].settled = job.sync]

\* A variant of the done path that never calls job.resolve.
JobDoneNoResolve(w, j, via) ==
  LET w1 == [w EXCEPT !.jobs[j].status = "done", !.jobs[j].out = "ok", !.jobs[j].via = via]
  IN [w1 EXCEPT !.jobs[j].inMap = IF w.jobs[j].sync THEN FALSE ELSE @]

\* drain, on the callback's result: done; a sync job leaves the map, an async one
\* is kept for polling (its deletion 60 s later lies beyond the modelled time).
JobDone(w, j, via) ==
  LET w1 == [w EXCEPT !.jobs[j].status = "done", !.jobs[j].out = "ok", !.jobs[j].via = via]
      w2 == Settle(w1, j, "ok", via)
  IN [w2 EXCEPT !.jobs[j].inMap = IF w.jobs[j].sync THEN FALSE ELSE @]

\* drain, on the callback's error.
JobError(w, j, err) ==
  LET w1 == [w EXCEPT !.jobs[j].status = "error", !.jobs[j].out = err]
      w2 == Settle(w1, j, err, "none")
  IN [w2 EXCEPT !.jobs[j].inMap = IF w.jobs[j].sync THEN FALSE ELSE @]

\* drain, on a job whose timeoutAt has passed: expired, rejected, deleted.
JobExpire(w, j) ==
  LET w1 == [w EXCEPT !.jobs[j].status = "expired", !.jobs[j].out = "errExpired"]
      w2 == Settle(w1, j, "errExpired", "none")
  IN [w2 EXCEPT !.jobs[j].inMap = FALSE]

\* History: one call of the drain function, for a job of the map or of the store.
Dispatch(where, id, createdAt) == [where |-> where, id |-> id, createdAt |-> createdAt]

\* The body of drain's loop from position pos of its list, up to the next await
\* (the callback, then the 50 ms pause) or the end of the list.  An expired job
\* is rejected and the loop continues without a pause.
RECURSIVE DrainFrom(_, _, _, _, _)
DrainFrom(w, d, snap, pos, t) ==
  IF pos > Len(snap) THEN [w EXCEPT !.drains[d] = IdleDrain]
  ELSE LET j == snap[pos]
       IN IF t > w.jobs[j].timeoutAt
            THEN DrainFrom(JobExpire(w, j), d, snap, pos + 1, t)
          ELSE LET w1 == [w EXCEPT !.jobs[j].status = "processing",
                                   !.dispatchLog = Append(@, Dispatch("memory", j,
                                                                      w.jobs[j].createdAt))]
                   at(pc, idx, log) ==
                     [pc |-> pc, snap |-> snap, pos |-> pos, idx |-> idx, log |-> log]
               IN IF drainFn = "mock"
                    THEN [w1 EXCEPT !.drains[d] = at("await", 0, <<>>)]
                  ELSE LET res == StartLoop(w1.circuits, w1.state, t)
                           w2 == [w1 EXCEPT
                                    !.circuits = res.circuits,
                                    !.state = res.state,
                                    !.probeOwner = ProbeAfter(DrainOwner(d), w1.circuits,
                                                              res.circuits, @)]
                       IN IF res.idx > Len(Chain)
                            THEN [JobError(w2, j, "errExhausted") EXCEPT
                                    !.drains[d] = at("sleep", 0, res.log)]
                            ELSE [w2 EXCEPT !.drains[d] = at("await", res.idx, res.log)]

\* drain(): nothing without a drain function; else the pending jobs, oldest first.
drain(w, d, t) ==
  IF drainFn = "null" THEN w ELSE DrainFrom(w, d, pendingJobs(w.jobs), 1, t)

\* scheduleProcessing(delayMs): the one timer is cleared and set again.
scheduleProcessing(delayMs, t) == Some(t + Max(0, delayMs))

\* A variant of enqueue that blocks the caller only below the threshold.
enqueueStrictThreshold(w, timer, r, estimatedWaitMs, t) ==
  IF Size(w.jobs) >= MaxSize
    THEN [w |-> [w EXCEPT !.req[r] = [@ EXCEPT !.pc = "done", !.out = "errQueueFull"]],
          timer |-> timer]
  ELSE LET j == CHOOSE x \in DOMAIN w.jobs : ~w.jobs[x].used /\ \A y \in 1..(x - 1) : w.jobs[y].used
           sync == estimatedWaitMs < AsyncThresholdMs
           job == [used |-> TRUE, inMap |-> TRUE, status |-> "pending", createdAt |-> t,
                   timeoutAt |-> t + TimeoutMs, estimatedWaitMs |-> estimatedWaitMs,
                   sync |-> sync, owner |-> r, settled |-> FALSE, out |-> "none",
                   via |-> "none", cooling |-> FALSE]
       IN [w |-> [w EXCEPT !.jobs[j] = job,
                           !.req[r] = IF sync
                                        THEN [@ EXCEPT !.pc = "waiting", !.job = j]
                                        ELSE [@ EXCEPT !.pc = "done", !.out = "async", !.job = j,
                                                       !.ret = Handle("memory", j,
                                                                      estimatedWaitMs)]],
           timer |-> scheduleProcessing(estimatedWaitMs, t)]

\* RequestQueue.enqueue by caller r: [w, timer, full].
enqueue(w, timer, r, estimatedWaitMs, t) ==
  IF Size(w.jobs) >= MaxSize
    THEN [w |-> [w EXCEPT !.req[r] = [@ EXCEPT !.pc = "done", !.out = "errQueueFull"]],
          timer |-> timer]
  ELSE LET j == CHOOSE x \in DOMAIN w.jobs : ~w.jobs[x].used /\ \A y \in 1..(x - 1) : w.jobs[y].used
           sync == estimatedWaitMs <= AsyncThresholdMs
           job == [used |-> TRUE, inMap |-> TRUE, status |-> "pending", createdAt |-> t,
                   timeoutAt |-> t + TimeoutMs, estimatedWaitMs |-> estimatedWaitMs,
                   sync |-> sync, owner |-> r, settled |-> FALSE, out |-> "none",
                   via |-> "none", cooling |-> FALSE]
       IN [w |-> [w EXCEPT !.jobs[j] = job,
                           !.req[r] = IF sync
                                        THEN [@ EXCEPT !.pc = "waiting", !.job = j]
                                        ELSE [@ EXCEPT !.pc = "done", !.out = "async", !.job = j,
                                                       !.ret = Handle("memory", j,
                                                                      estimatedWaitMs)]],
           timer |-> scheduleProcessing(estimatedWaitMs, t)]

\* The id pool of the model is not empty, or the queue is full anyway.
CanEnqueue == Size(jobs) >= MaxSize \/ \E x \in JobIds : ~jobs[x].used

\* What the router does with the answer to the call it awaits for candidate i:
\* the tracker and the breaker are updated, and the loop goes on or ends.
Attempt(w, owner, i, log, statusCode, h, t) ==
  LET v == Chain[i].provider
      key == KeyAt(i)
      mark(ev) == [log EXCEPT ![Len(log)] = Entry(i, ev)]
      w0 == [w EXCEPT !.state[key] = update(@, v, h, statusCode, t),
                      !.last429[key] = Last429After(h, statusCode, t),
                      !.probeOwner[v] = IF @ = owner THEN NoOwner ELSE @]
  IN IF statusCode < 400
       THEN [w |-> [w0 EXCEPT !.circuits[v] = recordSuccess(@), !.consec[v] = 0],
             kind |-> "ok", idx |-> i, log |-> mark("ok")]
     ELSE LET c2 == recordFailure(w.circuits[v], statusCode, t)
              w1 == [w0 EXCEPT !.circuits[v] = c2,
                               !.consec[v] = ConsecAfter(@, statusCode),
                               !.openLog[v] = OpenLogAfter(@, w.circuits[v], c2, t)]
          IN IF Retriable(statusCode)
               THEN LET res == RunLoop(AfterRetriable(i), w1.circuits, w1.state, t,
                                       mark("retry"))
                    IN [w |-> [w1 EXCEPT !.circuits = res.circuits,
                                         !.state = res.state,
                                         !.probeOwner = ProbeAfter(owner, w1.circuits,
                                                                   res.circuits, @)],
                        kind |-> IF res.idx > Len(Chain) THEN "exhausted" ELSE "calling",
                        idx |-> res.idx, log |-> res.log]
               ELSE [w |-> w1, kind |-> "err4xx", idx |-> i, log |-> mark("fatal")]

\* The answers a vendor gives.
Responses ==
  {[status |-> 200, h |-> NoHeaders], [status |-> 400, h |-> NoHeaders],
   [status |-> 500, h |-> NoHeaders]}
    \cup {[status |-> 429, h |-> Headers(Seconds(k), Null, Null)] : k \in {1, 2}}

\* The shared store, empty: the list ai-router:queue:pending, and per job id the
\* hash ai-router:queue:job:<id> and the value ai-router:queue:result:<id>.
RedisIds == 1..MaxRedisJobs
NoRedis ==
  [pending |-> <<>>,
   job |-> [i \in RedisIds |->
              [used |-> FALSE, exists |-> FALSE, createdAt |-> 0, timeoutAt |-> 0,
               accepted |-> FALSE, finished |-> FALSE]],
   result |-> [i \in RedisIds |-> "none"],
   rl |-> [k \in Keys |-> Null],
   cb |-> [v \in Vendors |-> Null]]

\* No adapter call is under way.
NoWire == [pc |-> "none"]

\* A second instance: the timer and the one drain pass of its RequestQueueRedis,
\* the map of its RateLimitTrackerRedis and the circuits of its
\* CircuitBreakerRedis; it is running once its startup has loaded from the store.
IdlePeer ==
  [running |-> FALSE, timer |-> Null, pc |-> "idle", job |-> 0,
   state |-> [k \in Keys |-> NoState],
   circuits |-> [v \in Vendors |-> NewCircuit]]

\* RequestQueue.poll: the job of the map by its status, or not_found.
poll(js, j) ==
  IF j \notin DOMAIN js \/ ~js[j].inMap THEN "not_found"
  ELSE IF js[j].status = "done" THEN "done"
  ELSE IF js[j].status = "error" THEN "error"
  ELSE IF js[j].status = "expired" THEN "expired"
  ELSE "pending"

\* RequestQueueRedis.poll with the store answering: the map first (the ids of the
\* store's jobs are not in it), then the result key, then the job's hash.
pollRedis(js, rd, h) ==
  LET local == IF h.where = "memory" THEN poll(js, h.id) ELSE "not_found"
  IN IF local # "not_found" THEN local
     ELSE IF h.where = "store" /\ rd.result[h.id] # "none" THEN rd.result[h.id]
     ELSE IF h.where = "store" /\ rd.job[h.id].exists THEN "pending"
     ELSE "not_found"

\* GET /v1/queue/:jobId: the HTTP status and error code for a poll result (a done
\* job is answered with the vendor's body, a pending one with its status).
queueRoutes(polled) ==
  CASE polled = "not_found" -> [status |-> 404, code |-> "job_not_found"]
    [] polled = "pending" -> [status |-> 202, code |-> "pending"]
    [] polled = "done" -> [status |-> 200, code |-> "body"]
    [] polled = "error" -> [status |-> 500, code |-> "queue_processing_error"]
    [] polled = "expired" -> [status |-> 408, code |-> "queue_timeout"]

\* ------------------------------------------------------------------ init
Init ==
  /\ now = MsPerSecond
  /\ ticks = 0
  /\ circuits = [v \in Vendors |-> NewCircuit]
  /\ consec = [v \in Vendors |-> 0]
  /\ openLog = [v \in Vendors |-> 0]
  /\ probeOwner = [v \in Vendors |-> NoOwner]
  /\ state = [k \in Keys |-> NoState]
  /\ last429 = [k \in Keys |-> No429]
  /\ req = [r \in 1..MaxReqs |-> IdleReq]
  /\ started = 0
  /\ jobs = [j \in 1..MaxJobs |-> NoJob]
  /\ drains = [d \in 1..MaxDrains |-> IdleDrain]
  /\ drainTimer = Null
  /\ drainFn = "router"
  /\ redis = NoRedis
  /\ dispatchLog = <<>>
  /\ peer = IdlePeer
  /\ wire = NoWire

\* The clock advances.
Tick(d) ==
  /\ ticks < MaxTicks
  /\ now' = now + d
  /\ ticks' = ticks + 1
  /\ UNCHANGED <<cbVars, rlVars, rtVars, qVars>>

\* ------------------------------------------- the breaker, called directly
FailureStatuses == {400, 429, 500, 503}

CallIsAvailable(v) ==
  /\ circuits' = [circuits EXCEPT ![v] = isAvailable(@, now)]
  /\ probeOwner' = [probeOwner EXCEPT ![v] =
       IF circuits[v].state = "open" /\ isAvailableRet(circuits[v], now)
         THEN <<"caller">> ELSE @]
  /\ UNCHANGED <<timeVars, consec, openLog, rlVars, rtVars, qVars>>

CallRecordSuccess(v) ==
  /\ circuits' = [circuits EXCEPT ![v] = recordSuccess(@)]
  /\ consec' = [consec EXCEPT ![v] = 0]
  /\ probeOwner' = [probeOwner EXCEPT ![v] = NoOwner]
  /\ UNCHANGED <<timeVars, openLog, rlVars, rtVars, qVars>>

CallRecordFailure(v, statusCode) ==
  /\ ConsecAfter(consec[v], statusCode) <= MaxConsec
  /\ circuits' = [circuits EXCEPT ![v] = recordFailure(@, statusCode, now)]
  /\ consec' = [consec EXCEPT ![v] = ConsecAfter(@, statusCode)]
  /\ openLog' = [openLog EXCEPT ![v] =
       OpenLogAfter(@, circuits[v], recordFailure(circuits[v], statusCode, now), now)]
  /\ probeOwner' = [probeOwner EXCEPT ![v] = NoOwner]
  /\ UNCHANGED <<timeVars, rlVars, rtVars, qVars>>

NextBreaker ==
  \/ Tick(MsPerSecond)
  \/ \E v \in Vendors : CallIsAvailable(v)
  \/ \E v \in Vendors : CallRecordSuccess(v)
  \/ \E v \in Vendors, s \in FailureStatuses : CallRecordFailure(v, s)

SpecBreaker == Init /\ [][NextBreaker]_vars

\* ------------------------------------------- the tracker, called directly
RetryAfterValues == {NoRetryAfter, Seconds(1), Seconds(2)}
RemainingValues == {Null, Some(0), Some(LowThreshold)}
ResetValues == {Null, Some(1)}

CallUpdate429(key, ra) ==
  LET h == Headers(ra, Null, Null)
  IN /\ state' = [state EXCEPT ![key] = update(@, key[1], h, 429, now)]
     /\ last429' = [last429 EXCEPT ![key] = Last429After(h, 429, now)]
     /\ UNCHANGED <<timeVars, cbVars, rtVars, qVars>>

CallUpdate(key, statusCode, rem, reset) ==
  LET h == Headers(NoRetryAfter, rem, reset)
  IN /\ state' = [state EXCEPT ![key] = update(@, key[1], h, statusCode, now)]
     /\ last429' = [last429 EXCEPT ![key] = Last429After(h, statusCode, now)]
     /\ UNCHANGED <<timeVars, cbVars, rtVars, qVars>>

CallShouldAvoid(key) ==
  /\ state' = [state EXCEPT ![key] = shouldAvoid(@, now)]
  /\ UNCHANGED <<timeVars, cbVars, last429, rtVars, qVars>>

NextTracker ==
  \/ Tick(MsPerSecond)
  \/ Tick(DefaultRetryAfterMs)
  \/ \E key \in Keys, ra \in RetryAfterValues : CallUpdate429(key, ra)
  \/ \E key \in Keys, s \in {200, 500}, rem \in RemainingValues, reset \in ResetValues :
       CallUpdate(key, s, rem, reset)
  \/ \E key \in Keys : CallShouldAvoid(key)

SpecTracker == Init /\ [][NextTracker]_vars

\* ------------------------------------------------------------ the router
\* Router.execute is called: the loop runs to its first adapter call.
Execute(r) ==
  /\ req[r].pc \in {"idle", "done"}
  /\ started < MaxStarts
  /\ started' = started + 1
  /\ \E res \in {StartLoop(circuits, state, now)} :
       SetWorld([World EXCEPT
          !.circuits = res.circuits,
          !.state = res.state,
          !.probeOwner = ProbeAfter(ReqOwner(r), circuits, res.circuits, @),
          !.req[r] = [pc |-> IF res.idx > Len(Chain) THEN "exhausted" ELSE "calling",
                      idx |-> res.idx, log |-> res.log, out |-> "none",
                      via |-> "none", job |-> 0, ret |-> NoHandle]])
  /\ UNCHANGED <<wire, timeVars, drainTimer, drainFn, redis, peer>>

\* The adapter call execute awaits returns a response or raises a ProviderError.
Answered(r, resp) ==
  /\ req[r].pc = "calling"
  /\ consec[Chain[req[r].idx].provider] < MaxConsec
  /\ \E a \in {Attempt(World, ReqOwner(r), req[r].idx, req[r].log, resp.status, resp.h, now)} :
       SetWorld([a.w EXCEPT !.req[r] =
          CASE a.kind = "ok" ->
                 [@ EXCEPT !.pc = "done", !.out = "ok", !.via = Chain[a.idx].provider,
                           !.log = a.log]
            [] a.kind = "calling" -> [@ EXCEPT !.idx = a.idx, !.log = a.log]
            [] a.kind = "exhausted" ->
                 [@ EXCEPT !.pc = "exhausted", !.idx = a.idx, !.log = a.log]
            [] a.kind = "err4xx" ->
                 [@ EXCEPT !.pc = "done", !.out = "err4xx", !.log = a.log]])
  /\ UNCHANGED <<wire, timeVars, started, drainTimer, drainFn, redis, peer>>

\* The adapter call raises something that is no ProviderError (a transport
\* failure): execute rethrows it.
Throws(r) ==
  /\ req[r].pc = "calling"
  /\ req' = [req EXCEPT ![r] =
       [@ EXCEPT !.pc = "done", !.out = "errAdapter",
                 !.log = [@ EXCEPT ![Len(@)] = Entry(req[r].idx, "throw")]]]
  /\ UNCHANGED <<timeVars, cbVars, rlVars, started, qVars>>

\* A plausible slip: an abort is handled like a 5xx answer.
AbortsTreatedAs5xx(r) == Answered(r, [status |-> 500, h |-> NoHeaders])

\* The request's signal fires while execute awaits the adapter call: the call
\* rejects with an AbortError, which is no ProviderError and no
\* AllProvidersExhaustedError, so executeProviderChain and execute rethrow it.
Aborts(r) ==
  /\ req[r].pc = "calling"
  /\ req' = [req EXCEPT ![r] =
       [@ EXCEPT !.pc = "done", !.out = "errAborted",
                 !.log = [@ EXCEPT ![Len(@)] = Entry(req[r].idx, "abort")]]]
  /\ UNCHANGED <<timeVars, cbVars, rlVars, started, qVars>>

\* What the chat handler answers for the outcome of router.execute: the status and
\* the error type (the catch block tests err.name, then err.status).
chatReply(out) ==
  CASE out = "ok" -> [status |-> 200, type |-> "none"]
    [] out = "async" -> [status |-> 202, type |-> "none"]
    [] out = "errAborted" -> [status |-> 499, type |-> "request_cancelled"]
    [] out = "err4xx" -> [status |-> 400, type |-> "invalid_request_error"]
    [] OTHER -> [status |-> 500, type |-> "api_error"]

\* execute caught AllProvidersExhaustedError: the request goes to the queue.
Enqueue(r) ==
  /\ req[r].pc = "exhausted"
  /\ CanEnqueue
  /\ \E wait \in {earliestAvailableMs(Chain, state, now) - now} :
       \E e \in {enqueue(World, drainTimer, r, Max(0, wait), now)} :
         /\ SetWorld(IF e.w.req[r].job \in JobIds
                       THEN [e.w EXCEPT !.jobs[e.w.req[r].job].cooling =
                                          AllCooling(state, now)]
                       ELSE e.w)
         /\ drainTimer' = e.timer
  /\ UNCHANGED <<wire, timeVars, started, drainFn, redis, peer>>

\* ------------------------------------------------------------- the queue
\* The drain timer fires: a drain pass starts.
TimerFires(d) ==
  /\ ~IsNull(drainTimer)
  /\ now >= Val(drainTimer)
  /\ drains[d].pc = "idle"
  /\ \A e \in 1..(d - 1) : drains[e].pc # "idle"
  /\ drainTimer' = Null
  /\ SetWorld(drain(World, d, now))
  /\ UNCHANGED <<wire, timeVars, started, drainFn, redis, peer>>

\* The 50 ms pause after a job is over: the pass goes on with its next job.
Resumes(d) ==
  /\ drains[d].pc = "sleep"
  /\ SetWorld(DrainFrom(World, d, drains[d].snap, drains[d].pos + 1, now))
  /\ UNCHANGED <<wire, timeVars, started, drainTimer, drainFn, redis, peer>>

\* The adapter call the drain callback (executeProviderChain) awaits is answered.
DrainAnswered(d, resp) ==
  /\ drains[d].pc = "await"
  /\ drainFn = "router"
  /\ consec[Chain[drains[d].idx].provider] < MaxConsec
  /\ \E a \in {Attempt(World, DrainOwner(d), drains[d].idx, drains[d].log,
                         resp.status, resp.h, now)} :
       LET j == drains[d].snap[drains[d].pos]
           to(w, pc) == [w EXCEPT !.drains[d] = [@ EXCEPT !.pc = pc, !.idx = a.idx,
                                                          !.log = a.log]]
       IN SetWorld(
          CASE a.kind = "ok" -> to(JobDone(a.w, j, Chain[a.idx].provider), "sleep")
            [] a.kind = "calling" -> to(a.w, "await")
            [] a.kind = "exhausted" -> to(JobError(a.w, j, "errExhausted"), "sleep")
            [] a.kind = "err4xx" -> to(JobError(a.w, j, "err4xx"), "sleep"))
  /\ UNCHANGED <<wire, timeVars, started, drainTimer, drainFn, redis, peer>>

\* The adapter call of the drain callback raises something that is no
\* ProviderError (a transport failure).
DrainThrows(d) ==
  /\ drains[d].pc = "await"
  /\ drainFn = "router"
  /\ LET j == drains[d].snap[drains[d].pos]
     IN SetWorld([JobError(World, j, "errAdapter") EXCEPT
                    !.drains[d] = [@ EXCEPT !.pc = "sleep"]])
  /\ UNCHANGED <<wire, timeVars, started, drainTimer, drainFn, redis, peer>>

\* The abort timer of the job being processed fires at its timeoutAt: the signal
\* aborts the adapter call, which rejects with an abort error; it is no
\* ProviderError, executeProviderChain rethrows it and drain's catch takes it.
DrainAborts(d) ==
  /\ drains[d].pc = "await"
  /\ drainFn = "router"
  /\ now >= jobs[drains[d].snap[drains[d].pos]].timeoutAt
  /\ LET j == drains[d].snap[drains[d].pos]
     IN SetWorld([JobError(World, j, "errAborted") EXCEPT
                    !.drains[d] = [@ EXCEPT !.pc = "sleep"]])
  /\ UNCHANGED <<wire, timeVars, started, drainTimer, drainFn, redis, peer>>

Next ==
  \/ Tick(MsPerSecond)
  \/ \E r \in Reqs : Execute(r)
  \/ \E r \in Reqs, resp \in Responses : Answered(r, resp)
  \/ \E r \in Reqs : Throws(r)
  \/ \E r \in Reqs : Aborts(r)
  \/ \E r \in Reqs : Enqueue(r)
  \/ \E d \in DrainIds : TimerFires(d)
  \/ \E d \in DrainIds : Resumes(d)
  \/ \E d \in DrainIds, resp \in Responses : DrainAnswered(d, resp)
  \/ \E d \in DrainIds : DrainThrows(d)
  \/ \E d \in DrainIds : DrainAborts(d)

Spec == Init /\ [][Next]_vars

\* The same program serving one client connection at a time, under fair
\* scheduling: the clock advances, a request that can start starts, every adapter
\* call in flight ends (answer, transport failure or abort), an exhausted request
\* is enqueued, a due drain timer fires and a paused drain pass resumes.
NextSerial ==
  \/ Tick(MsPerSecond)
  \/ Execute(1)
  \/ \E resp \in Responses : Answered(1, resp)
  \/ Throws(1)
  \/ Aborts(1)
  \/ Enqueue(1)
  \/ \E d \in DrainIds : TimerFires(d)
  \/ \E d \in DrainIds : Resumes(d)
  \/ \E d \in DrainIds, resp \in Responses : DrainAnswered(d, resp)
  \/ \E d \in DrainIds : DrainThrows(d)
  \/ \E d \in DrainIds : DrainAborts(d)

Fairness ==
  /\ WF_vars(Tick(MsPerSecond))
  /\ WF_vars(Execute(1))
  /\ WF_vars((\E resp \in Responses : Answered(1, resp)) \/ Throws(1) \/ Aborts(1))
  /\ WF_vars(Enqueue(1))
  /\ \A d \in 1..MaxDrains :
       /\ WF_vars(TimerFires(d))
       /\ WF_vars(Resumes(d))
       /\ WF_vars((\E resp \in Responses : DrainAnswered(d, resp))
                    \/ DrainThrows(d) \/ DrainAborts(d))

SpecFair == Init /\ [][NextSerial]_vars /\ Fairness

\* ------------------------- the queue alone, with a drain function of its own
InitQueue ==
  /\ now = MsPerSecond
  /\ ticks = 0
  /\ circuits = [v \in Vendors |-> NewCircuit]
  /\ consec = [v \in Vendors |-> 0]
  /\ openLog = [v \in Vendors |-> 0]
  /\ probeOwner = [v \in Vendors |-> NoOwner]
  /\ state = [k \in Keys |-> NoState]
  /\ last429 = [k \in Keys |-> No429]
  /\ req = [r \in 1..MaxCallers |-> IdleReq]
  /\ started = 0
  /\ jobs = [j \in 1..MaxQueueJobs |-> NoJob]
  /\ drains = [d \in 1..MaxQueueDrains |-> IdleDrain]
  /\ drainTimer = Null
  /\ drainFn = "mock"
  /\ redis = NoRedis
  /\ dispatchLog = <<>>
  /\ peer = IdlePeer
  /\ wire = NoWire

WaitValues == {0, AsyncThresholdMs, AsyncThresholdMs + MsPerSecond}

\* RequestQueue.enqueue is called with an estimated wait.
CallEnqueue(r, estimatedWaitMs) ==
  /\ req[r].pc \in {"idle", "done"}
  /\ started < MaxCalls
  /\ CanEnqueue
  /\ started' = started + 1
  /\ \E e \in {enqueue([World EXCEPT !.req[r] = IdleReq], drainTimer, r,
                         estimatedWaitMs, now)} :
       SetWorld(e.w) /\ drainTimer' = e.timer
  /\ UNCHANGED <<wire, timeVars, drainFn, redis, peer>>

\* The drain function's promise resolves.
MockResolves(d) ==
  /\ drains[d].pc = "await"
  /\ drainFn = "mock"
  /\ SetWorld([JobDone(World, drains[d].snap[drains[d].pos], "mock") EXCEPT
                 !.drains[d] = [@ EXCEPT !.pc = "sleep"]])
  /\ UNCHANGED <<wire, timeVars, started, drainTimer, drainFn, redis, peer>>

\* The drain function's promise rejects.
MockRejects(d) ==
  /\ drains[d].pc = "await"
  /\ drainFn = "mock"
  /\ SetWorld([JobError(World, drains[d].snap[drains[d].pos], "errMock") EXCEPT
                 !.drains[d] = [@ EXCEPT !.pc = "sleep"]])
  /\ UNCHANGED <<wire, timeVars, started, drainTimer, drainFn, redis, peer>>

NextQueue ==
  \/ Tick(MsPerSecond)
  \/ \E r \in Reqs, wait \in WaitValues : CallEnqueue(r, wait)
  \/ \E d \in DrainIds : TimerFires(d)
  \/ \E d \in DrainIds : Resumes(d)
  \/ \E d \in DrainIds : MockResolves(d)
  \/ \E d \in DrainIds : MockRejects(d)

SpecQueue == InitQueue /\ [][NextQueue]_vars

\* -------------------------------------- the queue on the shared store
InitRedis ==
  /\ now = MsPerSecond
  /\ ticks = 0
  /\ circuits = [v \in Vendors |-> NewCircuit]
  /\ consec = [v \in Vendors |-> 0]
  /\ openLog = [v \in Vendors |-> 0]
  /\ probeOwner = [v \in Vendors |-> NoOwner]
  /\ state = [k \in Keys |-> NoState]
  /\ last429 = [k \in Keys |-> No429]
  /\ req = [r \in 1..MaxRedisCallers |-> IdleReq]
  /\ started = 0
  /\ jobs = [j \in 1..MaxQueueJobs |-> NoJob]
  /\ drains = [d \in 1..MaxRedisDrains |-> IdleDrain]
  /\ drainTimer = Null
  /\ drainFn = "mock"
  /\ redis = NoRedis
  /\ dispatchLog = <<>>
  /\ peer = IdlePeer
  /\ wire = NoWire

\* RequestQueueRedis.enqueue.  A short wait goes to the base class.  A long one is
\* checked against this.jobs.size, then written to the store (rpush and hset, each
\* of which may fail); if either fails the base class enqueues it in memory.
RedisEnqueue(r, estimatedWaitMs, rpushOk, hsetOk) ==
  /\ req[r].pc \in {"idle", "done"}
  /\ started < MaxCalls
  /\ CanEnqueue
  /\ \E i \in RedisIds : ~redis.job[i].used
  /\ started' = started + 1
  /\ LET w == [World EXCEPT !.req[r] = IdleReq]
         i == CHOOSE x \in RedisIds :
                ~redis.job[x].used /\ \A y \in 1..(x - 1) : redis.job[y].used
         written ==
           [redis EXCEPT
              !.pending = IF rpushOk THEN Append(@, i) ELSE @,
              !.job[i] = [used |-> TRUE, exists |-> hsetOk,
                          createdAt |-> IF hsetOk THEN now ELSE 0,
                          timeoutAt |-> IF hsetOk THEN now + TimeoutMs ELSE 0,
                          accepted |-> rpushOk /\ hsetOk, finished |-> FALSE]]
     IN IF estimatedWaitMs <= AsyncThresholdMs
          THEN /\ rpushOk /\ hsetOk
               /\ \E e \in {enqueue(w, drainTimer, r, estimatedWaitMs, now)} :
                    SetWorld(e.w) /\ drainTimer' = e.timer
               /\ redis' = redis
        ELSE IF Size(jobs) >= MaxSize
          THEN /\ rpushOk /\ hsetOk
               /\ SetWorld([w EXCEPT !.req[r] = [@ EXCEPT !.pc = "done",
                                                          !.out = "errQueueFull"]])
               /\ UNCHANGED <<drainTimer, redis>>
        ELSE IF rpushOk /\ hsetOk
          THEN /\ SetWorld([w EXCEPT !.req[r] =
                                 [@ EXCEPT !.pc = "done", !.out = "async",
                                           !.ret = Handle("store", i, estimatedWaitMs)]])
               /\ drainTimer' = scheduleProcessing(estimatedWaitMs, now)
               /\ redis' = written
        ELSE /\ \E e \in {enqueue(w, drainTimer, r, estimatedWaitMs, now)} :
                  SetWorld(e.w) /\ drainTimer' = e.timer
             /\ redis' = written
  /\ UNCHANGED <<wire, timeVars, drainFn, peer>>

\* RequestQueueRedis.drain: after the base class's pass comes the store's part.
thenRedis(w, d) ==
  IF w.drains[d].pc = "idle" /\ drainFn # "null"
    THEN [w EXCEPT !.drains[d] = [@ EXCEPT !.pc = "lpop"]]
    ELSE w

RedisTimerFires(d) ==
  /\ ~IsNull(drainTimer)
  /\ now >= Val(drainTimer)
  /\ drains[d].pc = "idle"
  /\ \A e \in 1..(d - 1) : drains[e].pc # "idle"
  /\ drainTimer' = Null
  /\ SetWorld(thenRedis(drain(World, d, now), d))
  /\ UNCHANGED <<wire, timeVars, started, drainFn, redis, peer>>

RedisResumes(d) ==
  /\ drains[d].pc = "sleep"
  /\ SetWorld(thenRedis(DrainFrom(World, d, drains[d].snap, drains[d].pos + 1, now), d))
  /\ UNCHANGED <<wire, timeVars, started, drainTimer, drainFn, redis, peer>>

\* lpop, hgetall and the expiry check: one job id leaves the list; the pass ends
\* if the store fails, the list is empty, the hash is missing or the job is
\* expired (the writes of the expired result and of the deletion may fail, which
\* the code swallows), and else calls the drain function.
RedisPop(d, lpopOk, hgetallOk, writeOk) ==
  /\ drains[d].pc = "lpop"
  /\ IF ~lpopOk
       THEN /\ hgetallOk /\ writeOk
            /\ drains' = [drains EXCEPT ![d] = IdleDrain]
            /\ UNCHANGED <<redis, dispatchLog>>
     ELSE IF redis.pending = <<>>
       THEN /\ hgetallOk /\ writeOk
            /\ drains' = [drains EXCEPT ![d] = IdleDrain]
            /\ UNCHANGED <<redis, dispatchLog>>
     ELSE LET i == Head(redis.pending)
              popped == [redis EXCEPT !.pending = Tail(@)]
          IN IF ~hgetallOk \/ ~redis.job[i].exists
               THEN /\ writeOk
                    /\ drains' = [drains EXCEPT ![d] = IdleDrain]
                    /\ redis' = popped
                    /\ dispatchLog' = dispatchLog
             ELSE IF now > redis.job[i].timeoutAt
               THEN /\ drains' = [drains EXCEPT ![d] = IdleDrain]
                    /\ redis' = [popped EXCEPT
                                   !.result[i] = IF writeOk THEN "expired" ELSE @,
                                   !.job[i].exists = IF writeOk THEN FALSE ELSE @,
                                   !.job[i].finished = TRUE]
                    /\ dispatchLog' = dispatchLog
             ELSE /\ writeOk
                  /\ drains' = [drains EXCEPT ![d] =
                                  [pc |-> "rawait", snap |-> <<i>>, pos |-> 1,
                                   idx |-> 0, log |-> <<>>]]
                  /\ redis' = popped
                  /\ dispatchLog' =
                       Append(dispatchLog, Dispatch("store", i, redis.job[i].createdAt))
  /\ UNCHANGED <<wire, timeVars, cbVars, rlVars, rtVars, jobs, drainTimer, drainFn, peer>>

\* The drain function settles for a job of the store: the result is written and
\* the hash deleted; a failure of either write is swallowed by the code.
RedisJobSettles(d, status, setOk, delOk) ==
  /\ drains[d].pc = "rawait"
  /\ LET i == drains[d].snap[1]
     IN redis' = [redis EXCEPT !.result[i] = IF setOk THEN status ELSE @,
                               !.job[i].exists = IF delOk THEN FALSE ELSE @,
                               !.job[i].finished = TRUE]
  /\ drains' = [drains EXCEPT ![d] = [@ EXCEPT !.pc = "rsleep"]]
  /\ UNCHANGED <<wire, timeVars, cbVars, rlVars, rtVars, jobs, drainTimer, drainFn, dispatchLog, peer>>

\* After the 50 ms pause: llen, and another pass if the list is not empty.
RedisSleepDone(d) ==
  /\ drains[d].pc = "rsleep"
  /\ drains' = [drains EXCEPT ![d] = IdleDrain]
  /\ drainTimer' = IF Len(redis.pending) > 0 THEN scheduleProcessing(0, now) ELSE drainTimer
  /\ UNCHANGED <<wire, timeVars, cbVars, rlVars, rtVars, jobs, drainFn, redis, dispatchLog, peer>>

NextRedis ==
  \/ Tick(MsPerSecond)
  \/ \E r \in Reqs, wait \in WaitValues, rpushOk \in BOOLEAN, hsetOk \in BOOLEAN :
       RedisEnqueue(r, wait, rpushOk, hsetOk)
  \/ \E d \in DrainIds : RedisTimerFires(d)
  \/ \E d \in DrainIds : RedisResumes(d)
  \/ \E d \in DrainIds : MockResolves(d)
  \/ \E d \in DrainIds : MockRejects(d)
  \/ \E d \in DrainIds, lpopOk \in BOOLEAN, hgetallOk \in BOOLEAN, writeOk \in BOOLEAN :
       RedisPop(d, lpopOk, hgetallOk, writeOk)
  \/ \E d \in DrainIds, status \in {"done", "error"}, setOk \in BOOLEAN, delOk \in BOOLEAN :
       RedisJobSettles(d, status, setOk, delOk)
  \/ \E d \in DrainIds : RedisSleepDone(d)

SpecRedis == InitRedis /\ [][NextRedis]_vars

\* ------------------------------------ two instances on one shared store
\* The second instance starts (buildApp): its breaker and tracker load what the
\* store holds, and loadPendingFromRedis schedules a drain pass if the pending
\* list is not empty; a store that fails leaves it with clean state.
PeerStarts(loadOk) ==
  /\ ~peer.running
  /\ peer' = [peer EXCEPT
       !.running = TRUE,
       !.timer = IF loadOk /\ Len(redis.pending) > 0 THEN scheduleProcessing(0, now) ELSE @,
       !.state = [k \in Keys |->
                    IF loadOk /\ ~IsNull(redis.rl[k]) /\ now < Val(redis.rl[k]).until
                      THEN Val(redis.rl[k]).v ELSE @[k]],
       !.circuits = [v \in Vendors |->
                       IF loadOk /\ ~IsNull(redis.cb[v]) /\ now < Val(redis.cb[v]).until
                         THEN Val(redis.cb[v]).v ELSE @[v]]]
  /\ UNCHANGED <<wire, timeVars, cbVars, rlVars, rtVars, jobs, drains, drainTimer, drainFn,
                 redis, dispatchLog>>

\* RequestQueueRedis.enqueue on the second instance, with a long wait and the
\* store answering: rpush, hset, and its own timer is set.
PeerEnqueue(estimatedWaitMs) ==
  /\ peer.running
  /\ estimatedWaitMs > AsyncThresholdMs
  /\ started < MaxCalls
  /\ \E i \in RedisIds : ~redis.job[i].used
  /\ started' = started + 1
  /\ LET i == CHOOSE x \in RedisIds :
                ~redis.job[x].used /\ \A y \in 1..(x - 1) : redis.job[y].used
     IN redis' = [redis EXCEPT
          !.pending = Append(@, i),
          !.job[i] = [used |-> TRUE, exists |-> TRUE, createdAt |-> now,
                      timeoutAt |-> now + TimeoutMs, accepted |-> TRUE,
                      finished |-> FALSE]]
  /\ peer' = [peer EXCEPT !.timer = scheduleProcessing(estimatedWaitMs, now)]
  /\ UNCHANGED <<wire, timeVars, cbVars, rlVars, req, jobs, drains, drainTimer, drainFn,
                 dispatchLog>>

\* The second instance's timer fires: its drain pass starts (its map is empty).
PeerTimerFires ==
  /\ ~IsNull(peer.timer)
  /\ now >= Val(peer.timer)
  /\ peer.pc = "idle"
  /\ peer' = [peer EXCEPT !.timer = Null, !.pc = "lpop"]
  /\ UNCHANGED <<wire, timeVars, cbVars, rlVars, rtVars, jobs, drains, drainTimer, drainFn,
                 redis, dispatchLog>>

\* lpop, hgetall and the expiry check on the second instance.
PeerPop(lpopOk, hgetallOk) ==
  /\ peer.pc = "lpop"
  /\ IF ~lpopOk \/ redis.pending = <<>>
       THEN /\ hgetallOk
            /\ peer' = [peer EXCEPT !.pc = "idle"]
            /\ UNCHANGED <<redis, dispatchLog>>
     ELSE LET i == Head(redis.pending)
              popped == [redis EXCEPT !.pending = Tail(@)]
          IN IF ~hgetallOk \/ ~redis.job[i].exists
               THEN /\ peer' = [peer EXCEPT !.pc = "idle"]
                    /\ redis' = popped
                    /\ dispatchLog' = dispatchLog
             ELSE IF now > redis.job[i].timeoutAt
               THEN /\ peer' = [peer EXCEPT !.pc = "idle"]
                    /\ redis' = [popped EXCEPT !.result[i] = "expired",
                                               !.job[i].exists = FALSE,
                                               !.job[i].finished = TRUE]
                    /\ dispatchLog' = dispatchLog
             ELSE /\ peer' = [peer EXCEPT !.pc = "rawait", !.job = i]
                  /\ redis' = popped
                  /\ dispatchLog' =
                       Append(dispatchLog, Dispatch("store", i, redis.job[i].createdAt))
  /\ UNCHANGED <<wire, timeVars, cbVars, rlVars, rtVars, jobs, drains, drainTimer, drainFn>>

\* The drain function of the second instance settles.
PeerJobSettles(status) ==
  /\ peer.pc = "rawait"
  /\ redis' = [redis EXCEPT !.result[peer.job] = status,
                            !.job[peer.job].exists = FALSE,
                            !.job[peer.job].finished = TRUE]
  /\ peer' = [peer EXCEPT !.pc = "rsleep"]
  /\ UNCHANGED <<wire, timeVars, cbVars, rlVars, rtVars, jobs, drains, drainTimer, drainFn,
                 dispatchLog>>

\* After the pause of the second instance: llen, and another pass if not empty.
PeerSleepDone ==
  /\ peer.pc = "rsleep"
  /\ peer' = [peer EXCEPT
       !.pc = "idle", !.job = 0,
       !.timer = IF Len(redis.pending) > 0 THEN scheduleProcessing(0, now) ELSE @]
  /\ UNCHANGED <<wire, timeVars, cbVars, rlVars, rtVars, jobs, drains, drainTimer, drainFn,
                 redis, dispatchLog>>

\* Both instances enqueue long waits and drain; the store answers every command.
LongWaits == {w \in WaitValues : w > AsyncThresholdMs}

NextShared ==
  \/ Tick(MsPerSecond)
  \/ \E r \in Reqs, wait \in LongWaits : RedisEnqueue(r, wait, TRUE, TRUE)
  \/ \E d \in DrainIds : RedisTimerFires(d)
  \/ \E d \in DrainIds : RedisPop(d, TRUE, TRUE, TRUE)
  \/ \E d \in DrainIds, status \in {"done", "error"} :
       RedisJobSettles(d, status, TRUE, TRUE)
  \/ \E d \in DrainIds : RedisSleepDone(d)
  \/ PeerStarts(TRUE)
  \/ \E wait \in LongWaits : PeerEnqueue(wait)
  \/ PeerTimerFires
  \/ PeerPop(TRUE, TRUE)
  \/ \E status \in {"done", "error"} : PeerJobSettles(status)
  \/ PeerSleepDone

SpecShared == InitRedis /\ [][NextShared]_vars

\* --------------------- breaker and tracker of two instances on the store
StateTtlMs == 60000
BreakerTtlFactor == 3
MaxClusterCalls == 2

\* RateLimitTrackerRedis.persist: the entry is written with its time to live.
persistState(rd, key, s, t) ==
  [rd EXCEPT !.rl[key] =
     Some([v |-> s,
           until |-> t + Max(IF s.cooldownUntil > 0 THEN s.cooldownUntil - t ELSE 0,
                             StateTtlMs)])]

\* CircuitBreakerRedis.persist: the circuit is written with its time to live.
persistCircuit(rd, v, c, t) ==
  [rd EXCEPT !.cb[v] = Some([v |-> c, until |-> t + CooldownMs * BreakerTtlFactor])]

\* RateLimitTrackerRedis.update on the first instance: the map, then the store
\* (fire and forget: a failed write is swallowed).
ClusterUpdate(key, statusCode, ra, setOk) ==
  LET h == Headers(ra, Null, Null)
      s == update(state[key], key[1], h, statusCode, now)
  IN /\ started < MaxClusterCalls
     /\ started' = started + 1
     /\ state' = [state EXCEPT ![key] = s]
     /\ last429' = [last429 EXCEPT ![key] = Last429After(h, statusCode, now)]
     /\ redis' = IF setOk THEN persistState(redis, key, s, now) ELSE redis
     /\ UNCHANGED <<wire, timeVars, cbVars, req, jobs, drains, drainTimer, drainFn,
                    dispatchLog, peer>>

\* CircuitBreakerRedis.recordFailure on the first instance.
ClusterRecordFailure(v, statusCode, setOk) ==
  /\ ConsecAfter(consec[v], statusCode) <= MaxConsec
  /\ started < MaxClusterCalls
  /\ started' = started + 1
  /\ \E c \in {recordFailure(circuits[v], statusCode, now)} :
       /\ circuits' = [circuits EXCEPT ![v] = c]
       /\ openLog' = [openLog EXCEPT ![v] = OpenLogAfter(@, circuits[v], c, now)]
       /\ redis' = IF setOk THEN persistCircuit(redis, v, c, now) ELSE redis
  /\ consec' = [consec EXCEPT ![v] = ConsecAfter(@, statusCode)]
  /\ probeOwner' = [probeOwner EXCEPT ![v] = NoOwner]
  /\ UNCHANGED <<wire, timeVars, rlVars, req, jobs, drains, drainTimer, drainFn,
                 dispatchLog, peer>>

\* CircuitBreakerRedis.recordSuccess on the first instance.
ClusterRecordSuccess(v, setOk) ==
  /\ started < MaxClusterCalls
  /\ started' = started + 1
  /\ \E c \in {recordSuccess(circuits[v])} :
       /\ circuits' = [circuits EXCEPT ![v] = c]
       /\ redis' = IF setOk THEN persistCircuit(redis, v, c, now) ELSE redis
  /\ consec' = [consec EXCEPT ![v] = 0]
  /\ probeOwner' = [probeOwner EXCEPT ![v] = NoOwner]
  /\ UNCHANGED <<wire, timeVars, openLog, rlVars, req, jobs, drains, drainTimer, drainFn,
                 dispatchLog, peer>>

\* shouldAvoid on the second instance: RateLimitTrackerRedis does not override
\* it, the answer comes from the instance's own map.
PeerShouldAvoid(key) ==
  /\ peer.running
  /\ peer' = [peer EXCEPT !.state[key] = shouldAvoid(@, now)]
  /\ UNCHANGED <<wire, timeVars, cbVars, rlVars, rtVars, jobs, drains, drainTimer, drainFn,
                 redis, dispatchLog>>

\* CircuitBreakerRedis.isAvailable on the second instance: the answer comes from
\* its own circuits, which it then writes to the store.
PeerIsAvailable(v, setOk) ==
  /\ peer.running
  /\ \E c \in {isAvailable(peer.circuits[v], now)} :
       /\ peer' = [peer EXCEPT !.circuits[v] = c]
       /\ redis' = IF setOk THEN persistCircuit(redis, v, c, now) ELSE redis
  /\ UNCHANGED <<wire, timeVars, cbVars, rlVars, rtVars, jobs, drains, drainTimer, drainFn,
                 dispatchLog>>

NextCluster ==
  \/ Tick(MsPerSecond)
  \/ \E key \in Keys, ra \in {Seconds(1), Seconds(2)}, setOk \in BOOLEAN :
       ClusterUpdate(key, 429, ra, setOk)
  \/ \E v \in Vendors, statusCode \in {429, 500}, setOk \in BOOLEAN :
       ClusterRecordFailure(v, statusCode, setOk)
  \/ \E v \in Vendors, setOk \in BOOLEAN : ClusterRecordSuccess(v, setOk)
  \/ \E loadOk \in BOOLEAN : PeerStarts(loadOk)
  \/ \E key \in Keys : PeerShouldAvoid(key)
  \/ \E v \in Vendors, setOk \in BOOLEAN : PeerIsAvailable(v, setOk)

SpecCluster == Init /\ [][NextCluster]_vars

\* ------------------------------------------------ adapters and routes
AdapterVendors == {"openai", "anthropic", "google"}

\* Rows of MODEL_MAPPINGS ("null": the vendor has no such model).
MODEL_MAPPINGS ==
  << [capability |-> "chat", openai |-> "gpt-4.1", anthropic |-> "claude-opus-4-6",
      google |-> "gemini-1.5-pro"],
     [capability |-> "chat", openai |-> "gpt-4.1-mini", anthropic |-> "claude-sonnet-4-6",
      google |-> "gemini-1.5-flash"],
     [capability |-> "chat", openai |-> "gpt-4o", anthropic |-> "claude-opus-4-6",
      google |-> "gemini-1.5-pro"],
     [capability |-> "images", openai |-> "dall-e-3", anthropic |-> "null",
      google |-> "imagen-3.0-generate-001"],
     [capability |-> "embeddings", openai |-> "text-embedding-3-small",
      anthropic |-> "null", google |-> "null"] >>

\* MODEL_LOOKUP / findModelMapping: the first row that names the model, in any
\* column (0: none).
findModelMapping(modelName) ==
  LET hits == {n \in 1..Len(MODEL_MAPPINGS) :
                 /\ modelName # "null"
                 /\ modelName \in {MODEL_MAPPINGS[n][v] : v \in AdapterVendors}}
  IN IF hits = {} THEN 0 ELSE CHOOSE n \in hits : \A k \in hits : n <= k

\* getModelForProvider over these rows, for the three vendors.
vendorModel(modelName, provider) ==
  IF findModelMapping(modelName) = 0 THEN "null"
  ELSE MODEL_MAPPINGS[findModelMapping(modelName)][provider]

ModelNames ==
  {MODEL_MAPPINGS[n][v] : n \in 1..Len(MODEL_MAPPINGS), v \in AdapterVendors} \ {"null"}

\* A model name in a body: the name, and whether the vendor reports a dated
\* snapshot of it.
ModelField(name, snapshot) == [name |-> name, snapshot |-> snapshot]
NoBody == [hasModel |-> FALSE, model |-> ModelField("null", FALSE)]

\* The body a vendor's API answers with: it names the model that served the call,
\* but for image generation, whose answer has no model field.
UpstreamBody(capability, providerModel, snapshot) ==
  IF capability = "images" THEN NoBody
  ELSE [hasModel |-> TRUE, model |-> ModelField(providerModel, snapshot)]

\* adapter.call on a 200 answer: the body the adapter returns ("threw": none).
\* OpenAIAdapter passes the vendor's body on; AnthropicAdapter and GoogleAdapter
\* build a body whose model is requestedModel (translateResponse); Google's
\* image body has no model field.
AdapterBody(adapter, capability, requestedModel, upstream) ==
  CASE adapter = "openai" -> [threw |-> FALSE, body |-> upstream]
    [] adapter = "anthropic" ->
         IF capability # "chat" THEN [threw |-> TRUE, body |-> NoBody]
         ELSE [threw |-> FALSE,
               body |-> [hasModel |-> TRUE, model |-> ModelField(requestedModel, FALSE)]]
    [] adapter = "google" ->
         IF capability = "chat"
           THEN [threw |-> FALSE,
                 body |-> [hasModel |-> TRUE, model |-> ModelField(requestedModel, FALSE)]]
         ELSE IF capability = "images" THEN [threw |-> FALSE, body |-> NoBody]
         ELSE [threw |-> TRUE, body |-> NoBody]

\* A client's request for a model, routed to a vendor that has a model for it.
InitAdapter ==
  /\ now = MsPerSecond
  /\ ticks = 0
  /\ circuits = [v \in Vendors |-> NewCircuit]
  /\ consec = [v \in Vendors |-> 0]
  /\ openLog = [v \in Vendors |-> 0]
  /\ probeOwner = [v \in Vendors |-> NoOwner]
  /\ state = [k \in Keys |-> NoState]
  /\ last429 = [k \in Keys |-> No429]
  /\ req = [r \in 1..MaxReqs |-> IdleReq]
  /\ started = 0
  /\ jobs = [j \in 1..MaxJobs |-> NoJob]
  /\ drains = [d \in 1..MaxDrains |-> IdleDrain]
  /\ drainTimer = Null
  /\ drainFn = "router"
  /\ redis = NoRedis
  /\ dispatchLog = <<>>
  /\ peer = IdlePeer
  /\ \E requestedModel \in ModelNames, adapter \in AdapterVendors, snapshot \in BOOLEAN :
       /\ vendorModel(requestedModel, adapter) # "null"
       /\ wire = [pc |-> "start", adapter |-> adapter,
                  capability |-> MODEL_MAPPINGS[findModelMapping(requestedModel)].capability,
                  requestedModel |-> requestedModel,
                  providerModel |-> vendorModel(requestedModel, adapter),
                  snapshot |-> snapshot, body |-> NoBody, client |-> NoBody]

\* adapter.call: the vendor answers 200 and the adapter returns a body, or the
\* vendor answers an error status and the adapter throws a ProviderError.
AdapterCall(statusCode) ==
  /\ wire.pc = "start"
  /\ \E a \in {AdapterBody(wire.adapter, wire.capability, wire.requestedModel,
                           UpstreamBody(wire.capability, wire.providerModel,
                                        wire.snapshot))} :
       wire' = IF statusCode >= 400 \/ a.threw
                 THEN [wire EXCEPT !.pc = "threw"]
                 ELSE [wire EXCEPT !.pc = "returned", !.body = a.body]
  /\ UNCHANGED <<timeVars, cbVars, rlVars, rtVars, jobs, drains, drainTimer, drainFn,
                 redis, dispatchLog, peer>>

\* The route answers the client: reply.status(200).send(result.response.body).
RouteReplies ==
  /\ wire.pc = "returned"
  /\ wire' = [wire EXCEPT !.pc = "replied", !.client = wire.body]
  /\ UNCHANGED <<timeVars, cbVars, rlVars, rtVars, jobs, drains, drainTimer, drainFn,
                 redis, dispatchLog, peer>>

NextAdapter ==
  \/ \E statusCode \in {200, 500} : AdapterCall(statusCode)
  \/ RouteReplies

SpecAdapter == InitAdapter /\ [][NextAdapter]_vars

\* ------------------------------------------------ streaming (Anthropic)
MaxEvents == 3

\* One line of an SSE stream: whether it starts with "data: ", whether the rest
\* parses as JSON, and the fields of that JSON the code reads or writes.
Line(data, json, type, deltaType, text, object, model, finish) ==
  [data |-> data, json |-> json, type |-> type, deltaType |-> deltaType, text |-> text,
   object |-> object, model |-> model, finish |-> finish]

\* What the vendor sends.
EventLine == Line(FALSE, FALSE, "", "", "", "", "", "")
EmptyLine == Line(FALSE, FALSE, "", "", "", "", "", "blank")
TextDelta(text) ==
  Line(TRUE, TRUE, "content_block_delta", "text_delta", text, "", "", "")
Ping == Line(TRUE, TRUE, "ping", "", "", "", "", "")
MessageDelta == Line(TRUE, TRUE, "message_delta", "", "", "", "", "end_turn")
MessageStop == Line(TRUE, TRUE, "message_stop", "", "", "", "", "")

\* What convertStreamLine writes: data: {"object":"chat.completion.chunk",...}
\* (a JSON object without a type field) and data: [DONE] (not JSON).
Chunk(model, content, finish) ==
  Line(TRUE, TRUE, "undefined", "", content, "chat.completion.chunk", model, finish)
Done == Line(TRUE, FALSE, "", "", "", "", "", "done")

\* convertStreamLine: <<>> for null, else the one converted line.
convertStreamLine(line, requestedModel) ==
  IF ~line.data THEN <<>>
  ELSE IF ~line.json THEN <<>>
  ELSE CASE line.type = "content_block_delta" ->
              IF line.deltaType # "text_delta" THEN <<>>
              ELSE << Chunk(requestedModel, line.text, "null") >>
         [] line.type = "message_delta" -> << Chunk(requestedModel, "", "stop") >>
         [] line.type = "message_stop" -> << Done >>
         [] OTHER -> <<>>

RECURSIVE convertLines(_, _)
convertLines(lines, requestedModel) ==
  IF lines = <<>> THEN <<>>
  ELSE convertStreamLine(Head(lines), requestedModel)
         \o convertLines(Tail(lines), requestedModel)

\* chunk.split('\n') of a yielded chunk "data: ...\n\n".
split(chunk) == << chunk, EmptyLine, EmptyLine >>

\* normalizeStream for provider 'anthropic' = normalizeAnthropicStream: every line
\* of every chunk the adapter's stream yields goes through convertStreamLine.
RECURSIVE normalizeAnthropicStream(_, _)
normalizeAnthropicStream(stream, requestedModel) ==
  IF stream = <<>> THEN <<>>
  ELSE convertLines(split(Head(stream)), requestedModel)
         \o normalizeAnthropicStream(Tail(stream), requestedModel)

RECURSIVE SeqsUpTo(_, _)
SeqsUpTo(S, n) ==
  IF n = 0 THEN {<<>>}
  ELSE SeqsUpTo(S, n - 1) \cup {Append(q, x) : q \in SeqsUpTo(S, n - 1), x \in S}

\* A streaming chat request served by Anthropic: events, then the end of the
\* message (or the connection ends before it).
InitStream ==
  /\ now = MsPerSecond
  /\ ticks = 0
  /\ circuits = [v \in Vendors |-> NewCircuit]
  /\ consec = [v \in Vendors |-> 0]
  /\ openLog = [v \in Vendors |-> 0]
  /\ probeOwner = [v \in Vendors |-> NoOwner]
  /\ state = [k \in Keys |-> NoState]
  /\ last429 = [k \in Keys |-> No429]
  /\ req = [r \in 1..MaxReqs |-> IdleReq]
  /\ started = 0
  /\ jobs = [j \in 1..MaxJobs |-> NoJob]
  /\ drains = [d \in 1..MaxDrains |-> IdleDrain]
  /\ drainTimer = Null
  /\ drainFn = "router"
  /\ redis = NoRedis
  /\ dispatchLog = <<>>
  /\ peer = IdlePeer
  /\ \E events \in SeqsUpTo({EventLine, Ping, TextDelta("Hello"), TextDelta(" World")},
                             MaxEvents),
        ending \in {<<>>, <<MessageStop>>, <<MessageDelta, MessageStop>>},
        requestedModel \in {"gpt-4o", "claude-opus-4-6"} :
       wire = [pc |-> "streaming", requestedModel |-> requestedModel,
               upstream |-> events \o ending, buffer |-> <<>>, sent |-> <<>>,
               client |-> <<>>, destroyed |-> FALSE]

\* One pass of the route's for-await loop over what the adapter's stream yielded:
\* normalizeStream, then reply.raw.write unless the client is gone (break, end).
routeWrites(w, yielded) ==
  LET out == normalizeAnthropicStream(yielded, w.requestedModel)
  IN IF out = <<>> THEN w
     ELSE IF w.destroyed THEN [w EXCEPT !.pc = "ended"]
     ELSE [w EXCEPT !.client = w.client \o out]

\* A chunk of the vendor's body arrives: one line, complete or (the last one
\* only) without its newline. bodyToAsyncIterable converts the complete lines and
\* keeps the rest in its buffer.
UpstreamChunk(complete) ==
  /\ wire.pc = "streaming"
  /\ wire.upstream # <<>>
  /\ complete \/ Len(wire.upstream) = 1
  /\ \E w \in {[wire EXCEPT !.upstream = Tail(wire.upstream),
                              !.sent = Append(wire.sent, Head(wire.upstream))]} :
       wire' = IF complete
                 THEN routeWrites(w, convertStreamLine(Head(wire.upstream),
                                                      wire.requestedModel))
                 ELSE [w EXCEPT !.buffer = << Head(wire.upstream) >>]
  /\ UNCHANGED <<timeVars, cbVars, rlVars, rtVars, jobs, drains, drainTimer, drainFn,
                 redis, dispatchLog, peer>>

\* The vendor's body ends: bodyToAsyncIterable converts what is left in its
\* buffer, the loop ends and the route calls reply.raw.end().
StreamEnds ==
  /\ wire.pc = "streaming"
  /\ wire.upstream = <<>>
  /\ wire' = [routeWrites([wire EXCEPT !.buffer = <<>>],
                          convertLines(wire.buffer, wire.requestedModel))
               EXCEPT !.pc = "ended"]
  /\ UNCHANGED <<timeVars, cbVars, rlVars, rtVars, jobs, drains, drainTimer, drainFn,
                 redis, dispatchLog, peer>>

\* The client closes the connection: reply.raw.destroyed.
ClientCloses ==
  /\ wire.pc = "streaming"
  /\ ~wire.destroyed
  /\ wire' = [wire EXCEPT !.destroyed = TRUE]
  /\ UNCHANGED <<timeVars, cbVars, rlVars, rtVars, jobs, drains, drainTimer, drainFn,
                 redis, dispatchLog, peer>>

NextStream ==
  \/ \E complete \in BOOLEAN : UpstreamChunk(complete)
  \/ StreamEnds
  \/ ClientCloses

SpecStream == InitStream /\ [][NextStream]_vars

\* ------------------------------------------------ Anthropic output stream
MaxChunks == 3

\* Chunks of the internal stream besides Chunk, Done and EventLine: "data: " with
\* nothing after it, and JSON without choices.
EmptyData == Line(TRUE, FALSE, "", "", "", "", "", "empty")
NoChoices == Line(TRUE, TRUE, "undefined", "", "", "error", "", "")

FinishReasons == {"stop", "length", "content_filter", "tool_calls"}

InternalChunks ==
  {EventLine, EmptyData, NoChoices}
    \cup {Chunk("gpt-4o", content, "null") : content \in {"", "Hello", " World"}}
    \cup {Chunk("gpt-4o", "", finish) : finish \in FinishReasons}
    \cup {Chunk("gpt-4o", "Hello", "stop")}

\* An event of the Anthropic stream.
AnthropicEvent(type, text, stop_reason, output_tokens) ==
  [type |-> type, text |-> text, stop_reason |-> stop_reason,
   output_tokens |-> output_tokens]

mapFinishReason(openAIReason) ==
  CASE openAIReason = "stop" -> "end_turn"
    [] openAIReason = "length" -> "max_tokens"
    [] openAIReason = "content_filter" -> "stop_sequence"
    [] OTHER -> "end_turn"

\* The loop body of toAnthropicStream for one chunk that is neither skipped nor
\* [DONE], with a flag telling whether content_block_start is emitted whenever
\* there is content (TRUE) or only before the first content (FALSE).
onChoiceWith(w, line, always) ==
  LET content == line.text
      blockStart == IF content # "" /\ (always \/ ~w.contentBlockStarted)
                   THEN << AnthropicEvent("content_block_start", "", "null", 0) >>
                   ELSE <<>>
      delta == IF content # ""
                 THEN << AnthropicEvent("content_block_delta", content, "null", 0) >>
                 ELSE <<>>
  IN [w EXCEPT !.out = w.out \o blockStart \o delta,
               !.contentBlockStarted = w.contentBlockStarted \/ content # "",
               !.outputTokens = w.outputTokens + (IF content # "" THEN 1 ELSE 0),
               !.stopReason = IF line.finish # "null" THEN mapFinishReason(line.finish)
                              ELSE w.stopReason]

onChoiceRestarting(w, line) == onChoiceWith(w, line, TRUE)

onChoice(w, line) == onChoiceWith(w, line, FALSE)

\* After the loop: content_block_stop if a block was started, message_delta,
\* message_stop.
closeStream(w) ==
  [w EXCEPT !.pc = "closed",
            !.out = w.out
              \o (IF w.contentBlockStarted
                    THEN << AnthropicEvent("content_block_stop", "", "null", 0) >> ELSE <<>>)
              \o << AnthropicEvent("message_delta", "",
                                   IF w.stopReason = "null" THEN "end_turn"
                                   ELSE w.stopReason, w.outputTokens),
                    AnthropicEvent("message_stop", "", "null", 0) >>]

\* A call of toAnthropicStream on an internal stream: chunks, at most one of them
\* with a finish_reason, ended by [DONE] or by the end of the iterable.
InitOutput ==
  /\ now = MsPerSecond
  /\ ticks = 0
  /\ circuits = [v \in Vendors |-> NewCircuit]
  /\ consec = [v \in Vendors |-> 0]
  /\ openLog = [v \in Vendors |-> 0]
  /\ probeOwner = [v \in Vendors |-> NoOwner]
  /\ state = [k \in Keys |-> NoState]
  /\ last429 = [k \in Keys |-> No429]
  /\ req = [r \in 1..MaxReqs |-> IdleReq]
  /\ started = 0
  /\ jobs = [j \in 1..MaxJobs |-> NoJob]
  /\ drains = [d \in 1..MaxDrains |-> IdleDrain]
  /\ drainTimer = Null
  /\ drainFn = "router"
  /\ redis = NoRedis
  /\ dispatchLog = <<>>
  /\ peer = IdlePeer
  /\ \E chunks \in SeqsUpTo(InternalChunks, MaxChunks), ending \in {<<>>, <<Done>>} :
       /\ Cardinality({n \in 1..Len(chunks) :
                         chunks[n].json /\ chunks[n].finish \in FinishReasons}) <= 1
       /\ wire = [pc |-> "open", input |-> chunks \o ending, read |-> <<>>, out |-> <<>>,
                  contentBlockStarted |-> FALSE, outputTokens |-> 0,
                  stopReason |-> "null"]

\* The stream is opened: message_start and ping.
OutputOpens ==
  /\ wire.pc = "open"
  /\ wire' = [wire EXCEPT !.pc = "reading",
                          !.out = << AnthropicEvent("message_start", "", "null", 1),
                                     AnthropicEvent("ping", "", "null", 0) >>]
  /\ UNCHANGED <<timeVars, cbVars, rlVars, rtVars, jobs, drains, drainTimer, drainFn,
                 redis, dispatchLog, peer>>

\* The internal stream yields its next chunk: skipped (no "data: ", nothing after
\* it, not JSON, no choices), [DONE] (break), or a choice.
OutputChunk ==
  /\ wire.pc = "reading"
  /\ wire.input # <<>>
  /\ \E line \in {Head(wire.input)} :
     \E w \in {[wire EXCEPT !.input = Tail(wire.input),
                             !.read = Append(wire.read, line)]} :
       wire' = IF ~line.data THEN w
               ELSE IF line = Done THEN closeStream(w)
               ELSE IF ~line.json THEN w
               ELSE IF line.object # "chat.completion.chunk" THEN w
               ELSE onChoice(w, line)
  /\ UNCHANGED <<timeVars, cbVars, rlVars, rtVars, jobs, drains, drainTimer, drainFn,
                 redis, dispatchLog, peer>>

\* The internal stream ends without [DONE].
OutputInputEnds ==
  /\ wire.pc = "reading"
  /\ wire.input = <<>>
  /\ wire' = closeStream(wire)
  /\ UNCHANGED <<timeVars, cbVars, rlVars, rtVars, jobs, drains, drainTimer, drainFn,
                 redis, dispatchLog, peer>>

\* The internal stream throws: the generator ends with that error.
OutputInputThrows ==
  /\ wire.pc = "reading"
  /\ wire' = [wire EXCEPT !.pc = "aborted"]
  /\ UNCHANGED <<timeVars, cbVars, rlVars, rtVars, jobs, drains, drainTimer, drainFn,
                 redis, dispatchLog, peer>>

NextOutput ==
  \/ OutputOpens
  \/ OutputChunk
  \/ OutputInputEnds
  \/ OutputInputThrows

SpecOutput == InitOutput /\ [][NextOutput]_vars

\* ------------------------------------------------ authentication
\* The configured ROUTER_API_KEY and the texts a client may send instead.
RouterKey == "router-key"
KeyTexts == {RouterKey, "other-key", ""}

\* A header value: absent, a list of values (the header sent twice), or a string
\* made of a scheme prefix, a text and possibly white space around the text.
HeaderValue(kind, scheme, text, padded) ==
  [kind |-> kind, scheme |-> scheme, text |-> text, padded |-> padded]
AbsentHeader == HeaderValue("absent", "", "", FALSE)

XApiKeyValues ==
  {AbsentHeader, HeaderValue("array", "", RouterKey, FALSE)}
    \cup {HeaderValue("string", "", text, padded) : text \in KeyTexts, padded \in BOOLEAN}

AuthorizationValues ==
  {AbsentHeader}
    \cup {HeaderValue("string", scheme, text, padded) :
            scheme \in {"Bearer ", "bearer ", "Basic "}, text \in KeyTexts,
            padded \in BOOLEAN}

\* JavaScript truthiness of a header value: absent and the empty string are falsy.
Truthy(h) ==
  h.kind = "array" \/ (h.kind = "string" /\ (h.scheme # "" \/ h.text # "" \/ h.padded))

\* s.trim() of the part after the scheme: the text without the white space.
trim(h) == h.text

\* createHash('sha256').update(token).digest()
sha256(token) == << "sha256", token >>

\* extractToken: x-api-key first, then Authorization: Bearer; "null" for null.
extractToken(xApiKey, authorization) ==
  IF Truthy(xApiKey) /\ xApiKey.kind = "string" THEN [null |-> FALSE, token |-> trim(xApiKey)]
  ELSE IF authorization.kind = "string" /\ authorization.scheme = "Bearer "
    THEN [null |-> FALSE, token |-> trim(authorization)]
  ELSE [null |-> TRUE, token |-> ""]

\* authMiddleware: the status and code it replies with (0: no reply, the request
\* goes on to the handler).
authMiddleware(xApiKey, authorization) ==
  LET t == extractToken(xApiKey, authorization)
  IN IF t.null \/ t.token = "" THEN [status |-> 401, code |-> "missing_api_key"]
     ELSE IF sha256(t.token) # sha256(RouterKey)
       THEN [status |-> 401, code |-> "invalid_api_key"]
     ELSE [status |-> 0, code |-> "none"]

\* A POST with its two authentication headers arrives.
InitAuth ==
  /\ now = MsPerSecond
  /\ ticks = 0
  /\ circuits = [v \in Vendors |-> NewCircuit]
  /\ consec = [v \in Vendors |-> 0]
  /\ openLog = [v \in Vendors |-> 0]
  /\ probeOwner = [v \in Vendors |-> NoOwner]
  /\ state = [k \in Keys |-> NoState]
  /\ last429 = [k \in Keys |-> No429]
  /\ req = [r \in 1..MaxReqs |-> IdleReq]
  /\ started = 0
  /\ jobs = [j \in 1..MaxJobs |-> NoJob]
  /\ drains = [d \in 1..MaxDrains |-> IdleDrain]
  /\ drainTimer = Null
  /\ drainFn = "router"
  /\ redis = NoRedis
  /\ dispatchLog = <<>>
  /\ peer = IdlePeer
  /\ \E xApiKey \in XApiKeyValues, authorization \in AuthorizationValues,
        route \in {"chat", "messages", "images"} :
       wire = [pc |-> "received", route |-> route, xApiKey |-> xApiKey,
               authorization |-> authorization, reply |-> 0, code |-> "none",
               executed |-> FALSE]

\* The preHandler hook runs: it replies 401, which ends the request, or returns
\* without a reply.
AuthHook ==
  /\ wire.pc = "received"
  /\ \E a \in {authMiddleware(wire.xApiKey, wire.authorization)} :
       wire' = IF a.status # 0
                 THEN [wire EXCEPT !.pc = "replied", !.reply = a.status, !.code = a.code]
                 ELSE [wire EXCEPT !.pc = "handler"]
  /\ UNCHANGED <<timeVars, cbVars, rlVars, rtVars, jobs, drains, drainTimer, drainFn,
                 redis, dispatchLog, peer>>

\* The route handler runs and calls router.execute.
HandlerRuns ==
  /\ wire.pc = "handler"
  /\ wire' = [wire EXCEPT !.pc = "executing", !.executed = TRUE]
  /\ UNCHANGED <<timeVars, cbVars, rlVars, rtVars, jobs, drains, drainTimer, drainFn,
                 redis, dispatchLog, peer>>

NextAuth ==
  \/ AuthHook
  \/ HandlerRuns

SpecAuth == InitAuth /\ [][NextAuth]_vars

\* ------------------------------------------------ fallback chain, any configuration
\* Vendor lists without repetition, as providerPriority.
Priorities ==
  {q \in SeqsUpTo(AdapterVendors, Cardinality(AdapterVendors)) :
     \A a, b \in 1..Len(q) : a # b => q[a] # q[b]}

\* A name no row of MODEL_MAPPINGS lists.
UnmappedModel == "my-fine-tuned-model"

\* buildFallbackChain, first loop from position i: the prioritized vendors with an
\* adapter and a model for the requested one.
RECURSIVE chainMappedFrom(_, _, _, _)
chainMappedFrom(priority, adapters, requestedModel, i) ==
  IF i > Len(priority) THEN <<>>
  ELSE LET provider == priority[i]
           model == vendorModel(requestedModel, provider)
       IN IF provider \notin adapters \/ model = "null"
            THEN chainMappedFrom(priority, adapters, requestedModel, i + 1)
            ELSE << [provider |-> provider, model |-> model] >>
                   \o chainMappedFrom(priority, adapters, requestedModel, i + 1)

\* buildFallbackChain, second loop from position i: the first prioritized vendor
\* with an adapter, under the raw name.
RECURSIVE chainRawFrom(_, _, _, _)
chainRawFrom(priority, adapters, requestedModel, i) ==
  IF i > Len(priority) THEN <<>>
  ELSE IF priority[i] \in adapters
    THEN << [provider |-> priority[i], model |-> requestedModel] >>
    ELSE chainRawFrom(priority, adapters, requestedModel, i + 1)

\* buildFallbackChain for a router configured with priority and adapters.
chainFor(priority, adapters, requestedModel) ==
  LET chain == chainMappedFrom(priority, adapters, requestedModel, 1)
  IN IF Len(chain) = 0 THEN chainRawFrom(priority, adapters, requestedModel, 1)
     ELSE chain

\* A router with some priority and some adapters is asked for a model's chain.
InitChain ==
  /\ now = MsPerSecond
  /\ ticks = 0
  /\ circuits = [v \in Vendors |-> NewCircuit]
  /\ consec = [v \in Vendors |-> 0]
  /\ openLog = [v \in Vendors |-> 0]
  /\ probeOwner = [v \in Vendors |-> NoOwner]
  /\ state = [k \in Keys |-> NoState]
  /\ last429 = [k \in Keys |-> No429]
  /\ req = [r \in 1..MaxReqs |-> IdleReq]
  /\ started = 0
  /\ jobs = [j \in 1..MaxJobs |-> NoJob]
  /\ drains = [d \in 1..MaxDrains |-> IdleDrain]
  /\ drainTimer = Null
  /\ drainFn = "router"
  /\ redis = NoRedis
  /\ dispatchLog = <<>>
  /\ peer = IdlePeer
  /\ \E priority \in Priorities, adapters \in SUBSET AdapterVendors,
        requestedModel \in ModelNames \cup {UnmappedModel} :
       wire = [pc |-> "configured", priority |-> priority, adapters |-> adapters,
               requestedModel |-> requestedModel, chain |-> <<>>]

\* router.buildFallbackChain(requestedModel, capability, strategy)
BuildChain ==
  /\ wire.pc = "configured"
  /\ wire' = [wire EXCEPT !.pc = "built",
                          !.chain = chainFor(wire.priority, wire.adapters,
                                             wire.requestedModel)]
  /\ UNCHANGED <<timeVars, cbVars, rlVars, rtVars, jobs, drains, drainTimer, drainFn,
                 redis, dispatchLog, peer>>

NextChain == BuildChain

SpecChain == InitChain /\ [][NextChain]_vars

\* ------------------------------------------------ polling the shared store
\* GET /v1/queue/:jobId on RequestQueueRedis, one command of the store at a time.
\* The poll starts: super.poll looks in the map; a job found there is answered by
\* its status, and else the poll goes on to the store.
PollStarts(r) ==
  /\ wire.pc = "none"
  /\ req[r].pc = "done" /\ req[r].out = "async"
  /\ LET h == req[r].ret
         local == IF h.where = "memory" THEN poll(jobs, h.id) ELSE "not_found"
     IN wire' = IF local # "not_found"
                  THEN [pc |-> "polled", h |-> h, ans |-> local]
                  ELSE [pc |-> "get", h |-> h, ans |-> "none"]
  /\ UNCHANGED <<timeVars, cbVars, rlVars, rtVars, jobs, drains, drainTimer, drainFn,
                 redis, dispatchLog, peer>>

\* redis.get(RESULT_KEY) is answered: a stored result is the answer; a store that
\* fails gives not_found (the catch).
PollGet(getOk) ==
  /\ wire.pc = "get"
  /\ LET h == wire.h
         raw == IF h.where = "store" THEN redis.result[h.id] ELSE "none"
     IN wire' = IF ~getOk THEN [wire EXCEPT !.pc = "polled", !.ans = "not_found"]
                ELSE IF raw # "none" THEN [wire EXCEPT !.pc = "polled", !.ans = raw]
                ELSE [wire EXCEPT !.pc = "exists"]
  /\ UNCHANGED <<timeVars, cbVars, rlVars, rtVars, jobs, drains, drainTimer, drainFn,
                 redis, dispatchLog, peer>>

\* redis.exists(JOB_KEY) is answered: pending if the hash is there, else not_found.
PollExists(existsOk) ==
  /\ wire.pc = "exists"
  /\ LET h == wire.h
         jobExists == h.where = "store" /\ redis.job[h.id].exists
     IN wire' = [wire EXCEPT !.pc = "polled",
                             !.ans = IF existsOk /\ jobExists THEN "pending"
                                     ELSE "not_found"]
  /\ UNCHANGED <<timeVars, cbVars, rlVars, rtVars, jobs, drains, drainTimer, drainFn,
                 redis, dispatchLog, peer>>

\* The route has replied; the client may poll again.
PollReplied ==
  /\ wire.pc = "polled"
  /\ wire' = NoWire
  /\ UNCHANGED <<timeVars, cbVars, rlVars, rtVars, jobs, drains, drainTimer, drainFn,
                 redis, dispatchLog, peer>>

NextPoll ==
  \/ Tick(MsPerSecond)
  \/ \E r \in Reqs, wait \in WaitValues, rpushOk \in BOOLEAN, hsetOk \in BOOLEAN :
       RedisEnqueue(r, wait, rpushOk, hsetOk)
  \/ \E d \in DrainIds : RedisTimerFires(d)
  \/ \E d \in DrainIds : RedisResumes(d)
  \/ \E d \in DrainIds : MockResolves(d)
  \/ \E d \in DrainIds : MockRejects(d)
  \/ \E d \in DrainIds, lpopOk \in BOOLEAN, hgetallOk \in BOOLEAN, writeOk \in BOOLEAN :
       RedisPop(d, lpopOk, hgetallOk, writeOk)
  \/ \E d \in DrainIds, status \in {"done", "error"}, setOk \in BOOLEAN, delOk \in BOOLEAN :
       RedisJobSettles(d, status, setOk, delOk)
  \/ \E d \in DrainIds : RedisSleepDone(d)
  \/ \E r \in Reqs : PollStarts(r)
  \/ \E getOk \in BOOLEAN : PollGet(getOk)
  \/ \E existsOk \in BOOLEAN : PollExists(existsOk)
  \/ PollReplied

SpecPoll == InitRedis /\ [][NextPoll]_vars

\* ------------------------------------------------ startup: loading from the store
\* What the store may hold for a vendor's breaker or a key's tracker entry when
\* an instance starts: nothing, the JSON a previous run wrote, or a value that is
\* not JSON.
OpenedCircuit ==
  [state |-> "open", failureCount |-> FailureThreshold, openedAt |-> MsPerSecond,
   halfOpenTestInFlight |-> FALSE]
CoolingState ==
  [present |-> TRUE, coolingDown |-> TRUE,
   cooldownUntil |-> MsPerSecond + DefaultRetryAfterMs,
   remainingRequests |-> Null, resetRequestsAt |-> Null]

Stored(v, json) == Some([v |-> v, until |-> MsPerSecond + StateTtlMs, json |-> json])
StoredCircuits == {Null, Stored(OpenedCircuit, TRUE), Stored(OpenedCircuit, FALSE)}
StoredStates == {Null, Stored(CoolingState, TRUE), Stored(CoolingState, FALSE)}

\* JSON.parse of a stored value: the value written, or a SyntaxError.
JSONparse(raw) == [threw |-> ~raw.json, value |-> raw.v]

\* The orders in which redis.keys may list the keys of the set S.
RECURSIVE Orders(_)
Orders(S) ==
  IF S = {} THEN {<<>>}
  ELSE UNION {{<<x>> \o o : o \in Orders(S \ {x})} : x \in S}

\* One run of loadFromRedis: before redis.keys, in the loop, or over.
NewLoad == [pc |-> "keys", keys |-> <<>>, pos |-> 0, failed |-> FALSE]

InitLoad ==
  /\ now = MsPerSecond
  /\ ticks = 0
  /\ circuits = [v \in Vendors |-> NewCircuit]
  /\ consec = [v \in Vendors |-> 0]
  /\ openLog = [v \in Vendors |-> 0]
  /\ probeOwner = [v \in Vendors |-> NoOwner]
  /\ state = [k \in Keys |-> NoState]
  /\ last429 = [k \in Keys |-> No429]
  /\ req = [r \in 1..MaxReqs |-> IdleReq]
  /\ started = 0
  /\ jobs = [j \in 1..MaxJobs |-> NoJob]
  /\ drains = [d \in 1..MaxDrains |-> IdleDrain]
  /\ drainTimer = Null
  /\ drainFn = "router"
  /\ \E cb \in [Vendors -> StoredCircuits], rl \in [Keys -> StoredStates] :
       redis = [NoRedis EXCEPT !.cb = cb, !.rl = rl]
  /\ dispatchLog = <<>>
  /\ peer = IdlePeer
  /\ wire = [pc |-> "loading", cb |-> NewLoad, rl |-> NewLoad]

\* The store's map a loader reads, and its key space.
StoreOf(which) == IF which = "cb" THEN redis.cb ELSE redis.rl

\* redis.keys(PREFIX*) is answered: the loop starts on the keys listed, or the
\* outer catch ends the load.
LoadKeys(which, keysOk) ==
  /\ wire.pc = "loading"
  /\ wire[which].pc = "keys"
  /\ IF ~keysOk
       THEN wire' = [wire EXCEPT ![which] = [@ EXCEPT !.pc = "over", !.failed = TRUE]]
       ELSE \E o \in Orders({k \in DOMAIN StoreOf(which) : ~IsNull(StoreOf(which)[k])}) :
              wire' = [wire EXCEPT ![which] =
                         [pc |-> IF o = <<>> THEN "over" ELSE "loop", keys |-> o,
                          pos |-> 1, failed |-> FALSE]]
  /\ UNCHANGED <<timeVars, cbVars, rlVars, rtVars, jobs, drains, drainTimer, drainFn,
                 redis, dispatchLog, peer>>

\* redis.get(key) of the loop is answered: the parsed value is set in the map, a
\* value that does not parse is ignored, and a rejected get ends the load in the
\* outer catch.
LoadGet(which, getOk) ==
  /\ wire.pc = "loading"
  /\ wire[which].pc = "loop"
  /\ LET l == wire[which]
         key == l.keys[l.pos]
         raw == StoreOf(which)[key]
         parsed == JSONparse(Val(raw))
         set == getOk /\ ~IsNull(raw) /\ now < Val(raw).until /\ ~parsed.threw
         next == IF ~getOk THEN [l EXCEPT !.pc = "over", !.failed = TRUE]
                 ELSE IF l.pos = Len(l.keys) THEN [l EXCEPT !.pc = "over"]
                 ELSE [l EXCEPT !.pos = @ + 1]
     IN /\ wire' = [wire EXCEPT ![which] = next]
        /\ circuits' = IF which = "cb" /\ set
                         THEN [circuits EXCEPT ![key] = parsed.value] ELSE circuits
        /\ state' = IF which = "rl" /\ set
                      THEN [state EXCEPT ![key] = parsed.value] ELSE state
  /\ UNCHANGED <<timeVars, consec, openLog, probeOwner, last429, rtVars, jobs, drains,
                 drainTimer, drainFn, redis, dispatchLog, peer>>

\* Promise.all of the loads has settled: the instance registers its routes.
LoadsSettled ==
  /\ wire.pc = "loading"
  /\ wire.cb.pc = "over" /\ wire.rl.pc = "over"
  /\ wire' = [wire EXCEPT !.pc = "up"]
  /\ UNCHANGED <<timeVars, cbVars, rlVars, rtVars, jobs, drains, drainTimer, drainFn,
                 redis, dispatchLog, peer>>

NextLoad ==
  \/ \E which \in {"cb", "rl"}, keysOk \in BOOLEAN : LoadKeys(which, keysOk)
  \/ \E which \in {"cb", "rl"}, getOk \in BOOLEAN : LoadGet(which, getOk)
  \/ LoadsSettled

SpecLoad == InitLoad /\ [][NextLoad]_vars

\* ------------------------------------------------ a client that disconnects
\* The client of request r closes the connection while execute is blocked on the
\* promise of its sync job: the route's controller aborts its signal.  execute
\* passed the signal to executeProviderChain only; enqueue takes no signal and
\* drain makes a controller of its own, so nothing listens.
ClientAborts(r) ==
  /\ req[r].pc = "waiting"
  /\ wire = NoWire
  /\ wire' = [pc |-> "aborted", r |-> r, job |-> req[r].job]
  /\ UNCHANGED <<timeVars, cbVars, rlVars, rtVars, jobs, drains, drainTimer, drainFn,
                 redis, dispatchLog, peer>>

NextCancel ==
  \/ Tick(MsPerSecond)
  \/ Execute(1)
  \/ \E resp \in Responses : Answered(1, resp)
  \/ Throws(1)
  \/ Aborts(1)
  \/ Enqueue(1)
  \/ ClientAborts(1)
  \/ \E d \in DrainIds : TimerFires(d)
  \/ \E d \in DrainIds : Resumes(d)
  \/ \E d \in DrainIds, resp \in Responses : DrainAnswered(d, resp)
  \/ \E d \in DrainIds : DrainThrows(d)
  \/ \E d \in DrainIds : DrainAborts(d)

SpecCancel == Init /\ [][NextCancel]_vars

\* ------------------------------------------------ SSE rewriters and chunk boundaries
MaxLines == 2

\* What Google sends: data: {"candidates":[{content, finishReason}]}.
Candidate(text, finishReason) ==
  Line(TRUE, TRUE, "candidates", "", text, "", "", finishReason)

\* GoogleAdapter.mapFinishReason
googleFinishReason(reason) ==
  CASE reason = "STOP" -> "stop"
    [] reason = "MAX_TOKENS" -> "length"
    [] reason = "SAFETY" -> "content_filter"
    [] OTHER -> "stop"

\* GoogleAdapter.convertStreamLine: <<>> for null, else the one converted line.
googleConvertStreamLine(line, requestedModel) ==
  IF ~line.data THEN <<>>
  ELSE IF ~line.json THEN <<>>
  ELSE IF line.type # "candidates" THEN <<>>
  ELSE << Chunk(requestedModel, line.text,
                IF line.finish = "" THEN "null" ELSE googleFinishReason(line.finish)) >>

\* A line cut by the end of a read: what comes before the cut still starts with
\* "data: " but is no JSON text, what comes after starts in the middle of it.
HeadOf(line) == [line EXCEPT !.json = FALSE]
TailOf(line) == [line EXCEPT !.data = FALSE, !.json = FALSE]

\* One read of the body: the rest of a line the read before began (if any), the
\* complete lines, and the beginning of a line the read ends in (if any).
Read(first, lines, last) == [first |-> first, lines |-> lines, last |-> last]

\* chunk.split('\n'): after the last newline comes the cut line, or "".
splitRead(chunk) ==
  chunk.first \o chunk.lines \o (IF chunk.last = <<>> THEN << EmptyLine >> ELSE chunk.last)

\* The reads a body of the given lines arrives in: after each line the read goes
\* on ("none"), ends ("after"), or has ended inside the line ("inside").
RECURSIVE ReadsFrom(_, _, _, _)
ReadsFrom(lines, cuts, i, cur) ==
  IF i > Len(lines)
    THEN IF cur.first = <<>> /\ cur.lines = <<>> THEN <<>> ELSE << cur >>
  ELSE CASE cuts[i] = "none" ->
              ReadsFrom(lines, cuts, i + 1, [cur EXCEPT !.lines = Append(@, lines[i])])
         [] cuts[i] = "after" ->
              << [cur EXCEPT !.lines = Append(@, lines[i])] >>
                \o ReadsFrom(lines, cuts, i + 1, Read(<<>>, <<>>, <<>>))
         [] cuts[i] = "inside" ->
              << [cur EXCEPT !.last = << HeadOf(lines[i]) >>] >>
                \o ReadsFrom(lines, cuts, i + 1, Read(<< TailOf(lines[i]) >>, <<>>, <<>>))

Reads(lines, cuts) == ReadsFrom(lines, cuts, 1, Read(<<>>, <<>>, <<>>))

RECURSIVE convertWith(_, _, _)
convertWith(provider, lines, requestedModel) ==
  IF lines = <<>> THEN <<>>
  ELSE (IF provider = "google"
          THEN googleConvertStreamLine(Head(lines), requestedModel)
          ELSE convertStreamLine(Head(lines), requestedModel))
         \o convertWith(provider, Tail(lines), requestedModel)

\* Two runs of a normalizer over the same body, read in two ways.
NewRun(reads) == [reads |-> reads, out |-> <<>>, over |-> FALSE]

InitSplit ==
  /\ now = MsPerSecond
  /\ ticks = 0
  /\ circuits = [v \in Vendors |-> NewCircuit]
  /\ consec = [v \in Vendors |-> 0]
  /\ openLog = [v \in Vendors |-> 0]
  /\ probeOwner = [v \in Vendors |-> NoOwner]
  /\ state = [k \in Keys |-> NoState]
  /\ last429 = [k \in Keys |-> No429]
  /\ req = [r \in 1..MaxReqs |-> IdleReq]
  /\ started = 0
  /\ jobs = [j \in 1..MaxJobs |-> NoJob]
  /\ drains = [d \in 1..MaxDrains |-> IdleDrain]
  /\ drainTimer = Null
  /\ drainFn = "router"
  /\ redis = NoRedis
  /\ dispatchLog = <<>>
  /\ peer = IdlePeer
  /\ \E provider \in {"anthropic", "google"}, n \in 1..MaxLines :
       \E lines \in [1..n -> IF provider = "google"
                               THEN {Candidate("Hello", ""), Candidate(" World", "STOP")}
                               ELSE {EventLine, TextDelta("Hello"), MessageDelta,
                                     MessageStop}],
          a \in [1..n -> {"none", "after", "inside"}],
          b \in [1..n -> {"none", "after", "inside"}] :
         wire = [pc |-> "normalizing", provider |-> provider, requestedModel |-> "gpt-4o",
                 a |-> NewRun(Reads(lines, a)), b |-> NewRun(Reads(lines, b))]

\* One turn of the normalizer's for-await loop: the chunk is split at its
\* newlines and every piece goes through convertStreamLine.
NormalizerReads(run) ==
  /\ wire.pc = "normalizing"
  /\ wire[run].reads # <<>>
  /\ wire' = [wire EXCEPT ![run] =
       [@ EXCEPT !.reads = Tail(@),
                 !.out = @ \o convertWith(wire.provider, splitRead(Head(wire[run].reads)),
                                          wire.requestedModel)]]
  /\ UNCHANGED <<timeVars, cbVars, rlVars, rtVars, jobs, drains, drainTimer, drainFn,
                 redis, dispatchLog, peer>>

\* The stream is over: normalizeGoogleStream yields data: [DONE].
NormalizerEnds(run) ==
  /\ wire.pc = "normalizing"
  /\ wire[run].reads = <<>>
  /\ ~wire[run].over
  /\ wire' = [wire EXCEPT ![run] =
       [@ EXCEPT !.over = TRUE,
                 !.out = IF wire.provider = "google" THEN Append(@, Done) ELSE @]]
  /\ UNCHANGED <<timeVars, cbVars, rlVars, rtVars, jobs, drains, drainTimer, drainFn,
                 redis, dispatchLog, peer>>

NextSplit ==
  \/ \E run \in {"a", "b"} : NormalizerReads(run)
  \/ \E run \in {"a", "b"} : NormalizerEnds(run)

SpecSplit == InitSplit /\ [][NextSplit]_vars

\* ------------------------------------------------ request translation (Anthropic)
MaxMessages == 2

\* A string is the sequence of its pieces; a message content is a string or an
\* array of parts.
Str(text) == [kind |-> "string", text |-> text, parts |-> <<>>]
Parts(parts) == [kind |-> "array", text |-> <<>>, parts |-> parts]
Part(type, text) == [type |-> type, text |-> text]
Message(role, content) == [role |-> role, content |-> content]

\* strings.join(sep)
RECURSIVE join(_, _)
join(strings, sep) ==
  IF strings = <<>> THEN <<>>
  ELSE IF Len(strings) = 1 THEN strings[1]
  ELSE strings[1] \o sep \o join(Tail(strings), sep)

\* array.filter(keep).map(f)
filterMap(s, keep(_), f(_)) ==
  LET kept == SelectSeq(s, keep) IN [i \in 1..Len(kept) |-> f(kept[i])]

\* AnthropicAdapter.convertMessage
convertMessage(msg) ==
  LET role == IF msg.role = "assistant" THEN "assistant" ELSE "user"
      isText(p) == p.type = "text"
      textPart(p) == Part("text", p.text)
  IN IF msg.content.kind = "string" THEN Message(role, msg.content)
     ELSE Message(role, Parts(filterMap(msg.content.parts, isText, textPart)))

\* AnthropicAdapter.translateRequest
translateRequest(body, providerModel) ==
  LET isSystem(msg) == msg.role = "system"
      notSystem(msg) == msg.role # "system"
      textOf(msg) == IF msg.content.kind = "string" THEN msg.content.text ELSE <<>>
      systemMessages == join(filterMap(body.messages, isSystem, textOf), << "\n\n" >>)
  IN [model |-> providerModel,
      messages |-> filterMap(body.messages, notSystem, convertMessage),
      max_tokens |-> IF IsNull(body.max_tokens) THEN Some(DefaultMaxTokens)
                     ELSE body.max_tokens,
      stream |-> body.stream,
      system |-> IF systemMessages # <<>> THEN Some(systemMessages) ELSE Null,
      temperature |-> body.temperature,
      top_p |-> body.top_p]

\* anthropicToOpenAI (routes/messages.ts)
anthropicToOpenAI(body) ==
  LET isChat(msg) == msg.role \in {"user", "assistant"}
      isText(p) == p.type = "text"
      textOf(p) == p.text
      back(msg) ==
        IF msg.content.kind = "string" THEN Message(msg.role, msg.content)
        ELSE Message(msg.role,
                     Str(join(filterMap(msg.content.parts, isText, textOf), <<>>)))
  IN [model |-> body.model,
      messages |-> (IF ~IsNull(body.system) /\ Val(body.system) # <<>>
                      THEN << Message("system", Str(Val(body.system))) >> ELSE <<>>)
                     \o filterMap(body.messages, isChat, back),
      max_tokens |-> body.max_tokens,
      temperature |-> body.temperature,
      top_p |-> body.top_p,
      stream |-> body.stream]

\* The chat bodies a client may send.
Contents ==
  {Str(<< "hi" >>), Parts(<< Part("text", << "a" >>), Part("text", << "b" >>) >>)}
ChatMessages == {Message(role, c) : role \in {"system", "user", "assistant", "tool"},
                                    c \in Contents}
MessageLists == UNION {[1..n -> ChatMessages] : n \in 1..MaxMessages}

InitTranslate ==
  /\ now = MsPerSecond
  /\ ticks = 0
  /\ circuits = [v \in Vendors |-> NewCircuit]
  /\ consec = [v \in Vendors |-> 0]
  /\ openLog = [v \in Vendors |-> 0]
  /\ probeOwner = [v \in Vendors |-> NoOwner]
  /\ state = [k \in Keys |-> NoState]
  /\ last429 = [k \in Keys |-> No429]
  /\ req = [r \in 1..MaxReqs |-> IdleReq]
  /\ started = 0
  /\ jobs = [j \in 1..MaxJobs |-> NoJob]
  /\ drains = [d \in 1..MaxDrains |-> IdleDrain]
  /\ drainTimer = Null
  /\ drainFn = "router"
  /\ redis = NoRedis
  /\ dispatchLog = <<>>
  /\ peer = IdlePeer
  /\ \E messages \in MessageLists, model \in {"gpt-4o", "claude-opus-4-6"},
        max_tokens \in {Null, Some(16)}, temperature \in {Null, Some(0)},
        top_p \in {Null, Some(1)}, stream \in {Null, Some(TRUE)},
        penalties \in {Null, Some(1)} :
       wire = [pc |-> "body",
               body |-> [model |-> model, messages |-> messages,
                         max_tokens |-> max_tokens, temperature |-> temperature,
                         top_p |-> top_p, stream |-> stream,
                         frequency_penalty |-> penalties,
                         presence_penalty |-> penalties, logprobs |-> penalties],
               providerModel |-> vendorModel(model, "anthropic")]

\* AnthropicAdapter.call translates the body for the vendor.
Translates ==
  /\ wire.pc = "body"
  /\ wire' = [pc |-> "anthropic", body |-> wire.body,
              anthropic |-> translateRequest(wire.body, wire.providerModel)]
  /\ UNCHANGED <<timeVars, cbVars, rlVars, rtVars, jobs, drains, drainTimer, drainFn,
                 redis, dispatchLog, peer>>

\* POST /v1/messages receives that Anthropic body and converts it back.
ConvertsBack ==
  /\ wire.pc = "anthropic"
  /\ wire' = [pc |-> "internal", body |-> wire.body,
              internal |-> anthropicToOpenAI(wire.anthropic)]
  /\ UNCHANGED <<timeVars, cbVars, rlVars, rtVars, jobs, drains, drainTimer, drainFn,
                 redis, dispatchLog, peer>>

NextTranslate == Translates \/ ConvertsBack

SpecTranslate == InitTranslate /\ [][NextTranslate]_vars

\* ============================================================ properties

\* C1: the breaker is away from closed exactly when the 5xx failures recorded
\* since the vendor's last success have reached failureThreshold, and a
\* recordFailure with 429 or another 4xx status leaves the circuit (state,
\* failureCount, openedAt) as it was.
C1_ClosedIffBelowThreshold ==
  \A v \in Vendors : (circuits[v].state = "closed") <=> (consec[v] < FailureThreshold)

C1_BreakerOpensOn5xxOnly ==
  /\ []C1_ClosedIffBelowThreshold
  /\ [][\A v \in Vendors, s \in {400, 429} :
          CallRecordFailure(v, s) => circuits'[v] = circuits[v]]_vars

\* A breaker opened by exactly failureThreshold consecutive 5xx failures.
C1_Witness ==
  \E v \in Vendors :
    /\ circuits[v].state = "open"
    /\ consec[v] = FailureThreshold
    /\ circuits[v].failureCount = FailureThreshold

\* C3 as stated: while a 429 with retry-after k is the key's last update,
\* shouldAvoid is true exactly during the k seconds after it (k = 60 when
\* the header is absent).
C3_AvoidExactlyDuringRetryAfter ==
  \A key \in Keys :
    last429[key].is =>
      (shouldAvoidRet(state[key], now)
         <=> now < last429[key].at + last429[key].k * MsPerSecond)

\* C3 as amended: shouldAvoid is true during the k seconds, and afterwards
\* it is true only for the other reason the tracker has to avoid a key: a
\* known remainingRequests below the low threshold.
C3_AvoidDuringRetryAfter ==
  \A key \in Keys :
    last429[key].is =>
      IF now < last429[key].at + last429[key].k * MsPerSecond
        THEN shouldAvoidRet(state[key], now)
        ELSE shouldAvoidRet(state[key], now)
               <=> (~IsNull(state[key].remainingRequests)
                    /\ Val(state[key].remainingRequests) < LowThreshold)

\* A default (60 s) cooldown that has run out: the key is usable again.
C3_Witness ==
  \E key \in Keys :
    /\ last429[key].is
    /\ last429[key].k = 60
    /\ now >= last429[key].at + DefaultRetryAfterMs
    /\ state[key].coolingDown
    /\ ~shouldAvoidRet(state[key], now)

\* C2: after a vendor's breaker opens at t, isAvailable returns false for every
\* call in [t, t + cooldown), whatever calls concurrent requests make in between.
C2_UnavailableDuringCooldown ==
  \A v \in Vendors :
    (openLog[v] > 0 /\ now < openLog[v] + CooldownMs) => ~isAvailableRet(circuits[v], now)

\* What one pass of the chain has done so far is in chain order: entry n is about
\* candidate n, and every entry before the last is a skip or a retriable failure.
PassInOrder(log) ==
  /\ Len(log) <= Len(Chain)
  /\ \A n \in 1..Len(log) : log[n].i = n
  /\ \A n \in 1..(Len(log) - 1) : log[n].ev \in {"skipCB", "skipRL", "retry"}

\* C4: in one pass the candidates are taken in chain order, one after another: a
\* candidate is called only after every earlier one was skipped or answered
\* 429/5xx, none is taken twice, and the result names the candidate that succeeded.
C4_ChainOrderOneAtATime ==
  /\ \A r \in Reqs : PassInOrder(req[r].log)
  /\ \A d \in DrainIds : PassInOrder(drains[d].log)
  /\ \A r \in Reqs :
       (req[r].out = "ok" /\ req[r].job = 0) =>
         /\ req[r].log # <<>>
         /\ req[r].log[Len(req[r].log)].ev = "ok"
         /\ req[r].via = Chain[Len(req[r].log)].provider
  /\ \A d \in DrainIds :
       (drains[d].pc = "sleep" /\ drains[d].log # <<>>
          /\ drains[d].log[Len(drains[d].log)].ev = "ok") =>
         jobs[drains[d].snap[drains[d].pos]].via = Chain[Len(drains[d].log)].provider

C4_Witness ==
  \E r \in Reqs :
    /\ req[r].out = "ok"
    /\ req[r].via = "anthropic"
    /\ req[r].log = <<Entry(1, "retry"), Entry(2, "ok")>>

\* What a 429 or 5xx answer for candidate i leaves behind.
RetriableEffects(i, resp, log2) ==
  LET v == Chain[i].provider
      key == KeyAt(i)
  IN /\ resp.status = 429 =>
          /\ state'[key].coolingDown
          /\ state'[key].cooldownUntil = now + resp.h.retryAfter.v * MsPerSecond
          /\ circuits'[v] = circuits[v]
     /\ resp.status = 500 =>
          /\ state'[key].present
          /\ IF circuits[v].state = "half-open"
               THEN circuits'[v].state = "open" /\ circuits'[v].openedAt = now
               ELSE circuits'[v].failureCount = circuits[v].failureCount + 1
     /\ log2[i].ev = "retry"

\* C5: when the called candidate answers 429 or 5xx, the tracker of its key is
\* updated from the error (a 429 starts a cooldown until now + retry-after), the
\* breaker is told the status (and counts it only if it is 5xx), and the pass
\* goes on to the next candidate.
C5_RetriableErrorFallsBack ==
  [][/\ \A r \in Reqs, resp \in Responses :
          (resp.status \in {429, 500} /\ Answered(r, resp)) =>
            /\ RetriableEffects(req[r].idx, resp, req'[r].log)
            /\ \/ req'[r].pc = "calling" /\ req'[r].idx > req[r].idx
               \/ req'[r].pc = "exhausted" /\ req'[r].idx = Len(Chain) + 1
     /\ \A d \in DrainIds, resp \in Responses :
          (resp.status \in {429, 500} /\ DrainAnswered(d, resp)) =>
            /\ RetriableEffects(drains[d].idx, resp, drains'[d].log)
            /\ \/ drains'[d].pc = "await" /\ drains'[d].idx > drains[d].idx
               \/ drains'[d].pc = "sleep" /\ drains'[d].idx = Len(Chain) + 1]_vars

C5_Witness ==
  \E r \in Reqs :
    /\ req[r].pc = "calling"
    /\ req[r].log = <<Entry(1, "retry"), Entry(2, "call")>>
    /\ state[KeyAt(1)].coolingDown
    /\ state[KeyAt(1)].cooldownUntil = now + 2 * MsPerSecond

\* C6: when the called candidate answers 4xx other than 429, execute fails at
\* once with that error: no later candidate is called and nothing is enqueued.
C6_ClientErrorFailsAtOnce ==
  [][\A r \in Reqs, resp \in Responses :
        (resp.status = 400 /\ Answered(r, resp)) =>
          /\ req'[r].pc = "done"
          /\ req'[r].out = "err4xx"
          /\ req'[r].job = 0
          /\ Len(req'[r].log) = Len(req[r].log)
          /\ req'[r].log[req[r].idx].ev = "fatal"
          /\ jobs' = jobs
          /\ drainTimer' = drainTimer]_vars

C6_Witness ==
  \E r \in Reqs :
    /\ req[r].out = "err4xx"
    /\ req[r].log = <<Entry(1, "fatal")>>
    /\ Len(Chain) > 1
    /\ \A j \in JobIds : ~jobs[j].used

\* The entries a loop run adds to a pass's record follow the checks made on the
\* state the run found: unavailable breaker, skipped; else tracker says avoid,
\* skipped; else called; and the run stops only at a call or at the chain's end.
NewEntriesFollowChecks(oldLen, log2) ==
  /\ \A n \in (oldLen + 1)..Len(log2) :
       /\ n <= Len(Chain)
       /\ log2[n].ev =
            (IF ~isAvailableRet(circuits[Chain[n].provider], now) THEN "skipCB"
             ELSE IF shouldAvoidRet(state[KeyAt(n)], now) THEN "skipRL"
             ELSE "call")
  /\ Len(log2) > oldLen =>
       (log2[Len(log2)].ev = "call" \/ Len(log2) = Len(Chain))

\* C7: a candidate whose breaker is unavailable or whose tracker says avoid is
\* skipped, not called, and the candidates after it are still tried; so once
\* 5xx answers have opened a vendor's breaker the next request skips that vendor.
C7_UnavailableCandidateSkipped ==
  [][/\ \A r \in Reqs :
          /\ (req[r].pc \in {"idle", "done"} /\ req'[r].pc \in {"calling", "exhausted"}) =>
               req'[r].log # <<>> /\ NewEntriesFollowChecks(0, req'[r].log)
          /\ (req[r].pc = "calling" /\ req'[r].pc \in {"calling", "exhausted"}) =>
               NewEntriesFollowChecks(Len(req[r].log), req'[r].log)
     /\ \A d \in DrainIds :
          /\ (drains[d].pc \in {"idle", "sleep"} /\ drains'[d].pc \in {"await", "sleep"}
                /\ drains'[d] # drains[d] /\ drainFn = "router") =>
               drains'[d].log # <<>> /\ NewEntriesFollowChecks(0, drains'[d].log)
          /\ (drains[d].pc = "await" /\ drains'[d].pc \in {"await", "sleep"}) =>
               NewEntriesFollowChecks(Len(drains[d].log), drains'[d].log)]_vars

C7_Witness ==
  \E r \in Reqs :
    /\ req[r].pc = "calling"
    /\ req[r].log = <<Entry(1, "skipCB"), Entry(2, "call")>>
    /\ circuits[Chain[1].provider].state = "open"
    /\ consec[Chain[1].provider] >= FailureThreshold

\* C8: a caller of execute never receives AllProvidersExhausted as the error of
\* its request.
C8_CallerNeverSeesExhausted ==
  \A r \in Reqs : req[r].out # "errExhausted"

\* C9: the queue never holds more than maxSize jobs, the async jobs held in the
\* shared store counted.
C9_QueueHoldsAtMostMaxSize ==
  Size(jobs) + Cardinality({i \in RedisIds : redis.job[i].exists}) <= MaxSize

\* C10: a job that has reached done, error or expired keeps that status.
C10_TerminalStatusIsFinal ==
  \A j \in JobIds : jobs[j].out # "none" => jobs[j].status \in Terminal

\* C11: on one instance the jobs are handed to the drain function in
\* non-decreasing createdAt order, over all enqueues and drain passes.
C11_DispatchInCreatedAtOrder ==
  \A m \in 1..Len(dispatchLog), n \in 1..Len(dispatchLog) :
    m < n => dispatchLog[m].createdAt <= dispatchLog[n].createdAt


\* The call of enqueue by caller r with this estimated wait, when it is accepted:
\* a wait up to the threshold leaves the caller blocked and the store untouched; a
\* longer one returns mode async with a job id and the same wait, and poll of the
\* id says pending.
EnqueueMode(r, estimatedWaitMs) ==
  req'[r].out # "errQueueFull" =>
    IF estimatedWaitMs <= AsyncThresholdMs
      THEN /\ req'[r].pc = "waiting"
           /\ jobs'[req'[r].job].sync
           /\ redis' = redis
      ELSE /\ req'[r].pc = "done"
           /\ req'[r].out = "async"
           /\ req'[r].ret.where \in {"memory", "store"}
           /\ req'[r].ret.estimatedWaitMs = estimatedWaitMs
           /\ pollRedis(jobs', redis', req'[r].ret) = "pending"

\* A blocked caller's job has not settled; an async job that has not finished
\* polls as pending, in the map and in the store.
PendingUntilFinished ==
  /\ \A r \in Reqs : req[r].pc = "waiting" => ~jobs[req[r].job].settled
  /\ \A j \in JobIds :
       jobs[j].used /\ ~jobs[j].sync /\ jobs[j].status \notin Terminal
         => pollRedis(jobs, redis, Handle("memory", j, 0)) = "pending"
  /\ \A i \in RedisIds :
       redis.job[i].accepted /\ ~redis.job[i].finished
         => pollRedis(jobs, redis, Handle("store", i, 0)) = "pending"

QueuedForCooldown(r) ==
  AllCooling(state, now) /\ Size(jobs) < MaxSize =>
    LET j == req'[r].job
    IN /\ j \in JobIds
       /\ jobs'[j].inMap /\ jobs'[j].status = "pending" /\ jobs'[j].cooling
       /\ ~IsNull(drainTimer')
       /\ \E k \in 1..Len(Chain) : state[KeyAt(k)].cooldownUntil = Val(drainTimer')
       /\ \A k \in 1..Len(Chain) : state[KeyAt(k)].cooldownUntil >= Val(drainTimer')
       /\ IF Val(drainTimer') - now <= AsyncThresholdMs
            THEN req'[r].pc = "waiting"
            ELSE /\ req'[r].out = "async"
                 /\ req'[r].ret = Handle("memory", j, Val(drainTimer') - now)
                 /\ poll(jobs', j) = "pending"

\* The vendor called for a job queued for cooldowns answers 200: the job is done
\* with that vendor's body; the caller blocked on it receives the body; an async
\* job polls as pending before the answer and as done after it.
CompletedByAnswer(d) ==
  LET j == drains[d].snap[drains[d].pos]
      v == Chain[drains[d].idx].provider
      r == jobs[j].owner
  IN jobs[j].cooling =>
       /\ jobs'[j].status = "done" /\ jobs'[j].out = "ok" /\ jobs'[j].via = v
       /\ jobs[j].sync /\ req[r].pc = "waiting" /\ req[r].job = j
            => req'[r].pc = "done" /\ req'[r].out = "ok" /\ req'[r].via = v
       /\ ~jobs[j].sync => poll(jobs, j) = "pending" /\ poll(jobs', j) = "done"

C14_TimedOutJobExpires ==
  \A j \in JobIds :
    jobs[j].used /\ jobs[j].out \in {"errExpired", "errAborted"}
      => /\ jobs[j].status = "expired"
         /\ jobs[j].sync => req[jobs[j].owner].out = jobs[j].out

\* C15: after an async job has timed out in the queue, poll of its id reports
\* expired and GET /v1/queue/:jobId answers 408 with code queue_timeout.
C15_ExpiredJobPollsAs408 ==
  \A j \in JobIds :
    jobs[j].used /\ ~jobs[j].sync /\ jobs[j].status = "expired"
      => /\ poll(jobs, j) = "expired"
         /\ queueRoutes(poll(jobs, j)) = [status |-> 408, code |-> "queue_timeout"]

\* How often the job i of the store was handed to a drain function.
StoreDispatches(i) ==
  Cardinality({n \in 1..Len(dispatchLog) :
                 dispatchLog[n].where = "store" /\ dispatchLog[n].id = i})

InList(i) == \E n \in 1..Len(redis.pending) : redis.pending[n] = i

\* C16: with several instances on one store, every async job pushed to the
\* pending list is handed to the drain callback by exactly one instance: never
\* by two, and never by none (a job that has left the list without having
\* timed out was handed over, and a job in the list has a pass coming, on an
\* instance whose timer is set or whose pass or startup is under way).
C16_DrainedByExactlyOneInstance ==
  /\ \A i \in RedisIds : StoreDispatches(i) <= 1
  /\ \A i \in RedisIds :
       redis.job[i].accepted /\ ~InList(i)
         => StoreDispatches(i) = 1 \/ redis.result[i] = "expired"
  /\ redis.pending # <<>>
       => \/ ~IsNull(drainTimer) \/ \E d \in DrainIds : drains[d].pc # "idle"
          \/ ~IsNull(peer.timer) \/ peer.pc # "idle" \/ ~peer.running

\* C17: with a shared store, running instances share one view of breaker and
\* tracker: while the first instance holds a 429 cooldown for a key, shouldAvoid
\* on the second, running instance is true for it, and while the first holds a
\* vendor's breaker open within its cooldown, isAvailable on the second is false.
C17_PeerReflectsSharedState ==
  peer.running =>
    /\ \A k \in Keys :
         state[k].present /\ state[k].coolingDown /\ now < state[k].cooldownUntil
           => shouldAvoidRet(peer.state[k], now)
    /\ \A v \in Vendors :
         circuits[v].state = "open" /\ now - circuits[v].openedAt < CooldownMs
           => ~isAvailableRet(peer.circuits[v], now)

\* A pass of the instance holds the job i of the store.
HeldByPass(i) ==
  \E d \in DrainIds : drains[d].pc = "rawait" /\ drains[d].snap[1] = i

\* C18: whatever step the shared store fails at, no accepted request is dropped:
\* every job for which enqueue returned an async handle reaches a terminal
\* status that poll reports (once the job has left the pending list and no pass
\* holds it, poll of its id, with the store answering, says done, error or
\* expired).
C18_AcceptedJobReachesTerminalStatus ==
  \A i \in RedisIds :
    redis.job[i].accepted /\ ~InList(i) /\ ~HeldByPass(i)
      => pollRedis(jobs, redis, Handle("store", i, 0)) \in Terminal

\* C19: for every adapter and every pair of requested model and vendor model, the
\* model field of the body returned to the client is the client's requestedModel.
C19_BodyModelIsRequestedModel ==
  wire.pc = "replied" /\ wire.client.hasModel
    => wire.client.model = ModelField(wire.requestedModel, FALSE)

IsContentChunk(l) == l.data /\ l.json /\ l.object = "chat.completion.chunk" /\ l.text # ""

RECURSIVE ExpectedChunks(_, _)
ExpectedChunks(lines, requestedModel) ==
  IF lines = <<>> THEN <<>>
  ELSE (IF Head(lines).type = "content_block_delta" /\ Head(lines).deltaType = "text_delta"
          THEN << Chunk(requestedModel, Head(lines).text, "null") >> ELSE <<>>)
         \o ExpectedChunks(Tail(lines), requestedModel)

\* C20: when a streamed chat answer from Anthropic has ended and the client stayed
\* connected, the client was sent one chat.completion.chunk per upstream text_delta,
\* in upstream order with that text as delta.content, and the data: [DONE] marker
\* last when the upstream sent message_stop.
C20_ClientGetsChunkPerTextDelta ==
  wire.pc = "ended" /\ ~wire.destroyed
    => /\ SelectSeq(wire.client, IsContentChunk)
            = ExpectedChunks(wire.sent, wire.requestedModel)
       /\ (\E n \in 1..Len(wire.sent) : wire.sent[n] = MessageStop)
            => wire.client # <<>> /\ wire.client[Len(wire.client)] = Done

IsContentBearing(l) ==
  l.data /\ l.json /\ l.object = "chat.completion.chunk" /\ l.text # ""

RECURSIVE DeltasOf(_)
DeltasOf(chunks) ==
  IF chunks = <<>> THEN <<>>
  ELSE (IF IsContentBearing(Head(chunks))
          THEN << AnthropicEvent("content_block_delta", Head(chunks).text, "null", 0) >>
          ELSE <<>>) \o DeltasOf(Tail(chunks))

\* message_start, ping, then content_block_start and the deltas if there are any.
EventsWhileReading(chunks) ==
  << AnthropicEvent("message_start", "", "null", 1), AnthropicEvent("ping", "", "null", 0) >>
    \o (IF DeltasOf(chunks) = <<>> THEN <<>>
        ELSE << AnthropicEvent("content_block_start", "", "null", 0) >> \o DeltasOf(chunks))

\* The stop_reason the finish_reason of the stream maps to (end_turn without one).
StopReasonOf(chunks) ==
  IF \E n \in 1..Len(chunks) : chunks[n].json /\ chunks[n].finish \in FinishReasons
    THEN LET n == CHOOSE k \in 1..Len(chunks) :
                    chunks[k].json /\ chunks[k].finish \in FinishReasons
         IN CASE chunks[n].finish = "length" -> "max_tokens"
              [] chunks[n].finish = "content_filter" -> "stop_sequence"
              [] OTHER -> "end_turn"
    ELSE "end_turn"

\* C21: toAnthropicStream emits message_start, ping, then content_block_start at
\* most once and before the first content_block_delta, one content_block_delta per
\* content-bearing chunk in input order, then (when the internal stream has ended)
\* content_block_stop if and only if content_block_start was emitted, message_delta
\* with the mapped stop_reason, and message_stop last, exactly once.
C21_AnthropicEventOrder ==
  /\ wire.pc \in {"reading", "aborted"} => wire.out = EventsWhileReading(wire.read)
  /\ wire.pc = "closed" =>
        wire.out = EventsWhileReading(wire.read)
                     \o (IF DeltasOf(wire.read) = <<>> THEN <<>>
                         ELSE << AnthropicEvent("content_block_stop", "", "null", 0) >>)
                     \o << AnthropicEvent("message_delta", "", StopReasonOf(wire.read),
                                          Len(DeltasOf(wire.read))),
                           AnthropicEvent("message_stop", "", "null", 0) >>

\* A stream with two content-bearing chunks and a finish_reason other than stop has
\* been converted to its end.
C21_Witness ==
  /\ wire.pc = "closed"
  /\ Len(DeltasOf(wire.read)) = 2
  /\ StopReasonOf(wire.read) = "max_tokens"

\* The abort of request r's vendor call ends the request: no further candidate is
\* tried, no job is enqueued, and the chat handler answers 499 request_cancelled.
AbortEndsRequest(r) ==
  /\ req'[r].pc = "done"
  /\ req'[r].idx = req[r].idx /\ Len(req'[r].log) = Len(req[r].log)
  /\ req'[r].log[Len(req[r].log)] = Entry(req[r].idx, "abort")
  /\ req'[r].job = 0 /\ jobs' = jobs /\ drainTimer' = drainTimer
  /\ chatReply(req'[r].out) = [status |-> 499, type |-> "request_cancelled"]

PresentsRouterKey ==
  \/ wire.xApiKey.kind = "string" /\ wire.xApiKey.text = RouterKey
  \/ /\ wire.authorization.kind = "string" /\ wire.authorization.scheme = "Bearer "
     /\ wire.authorization.text = RouterKey

\* C23: a POST is authorized exactly when it presents the router key in
\* Authorization: Bearer or in x-api-key, also when both headers are present and
\* only one carries the key; a request without the key is answered 401 and never
\* reaches Router.execute.
C23_AuthorizedIffKeyPresented ==
  wire.pc \in {"handler", "executing", "replied"} =>
    /\ (wire.pc \in {"handler", "executing"}) <=> PresentsRouterKey
    /\ wire.pc = "replied" => wire.reply = 401 /\ ~wire.executed

\* The vendor has a registered adapter and a model for the requested one.
QualifiesForChain(provider) ==
  provider \in wire.adapters /\ vendorModel(wire.requestedModel, provider) # "null"

HasAdapter(provider) == provider \in wire.adapters

\* C24: buildFallbackChain returns, in priority order, exactly the vendors with a
\* registered adapter and a mapped model, each paired with that model; the single
\* raw-name entry (first prioritized vendor with an adapter, requestedModel) is
\* added only when no mapping is found for the requested name.
C24_ChainIsQualifyingVendors ==
  wire.pc = "built" =>
    IF findModelMapping(wire.requestedModel) # 0
      THEN /\ Len(wire.chain) = Len(SelectSeq(wire.priority, QualifiesForChain))
           /\ \A n \in 1..Len(wire.chain) :
                /\ wire.chain[n].provider
                     = SelectSeq(wire.priority, QualifiesForChain)[n]
                /\ wire.chain[n].model
                     = vendorModel(wire.requestedModel, wire.chain[n].provider)
      ELSE IF SelectSeq(wire.priority, HasAdapter) = <<>> THEN wire.chain = <<>>
      ELSE wire.chain = << [provider |-> SelectSeq(wire.priority, HasAdapter)[1],
                            model |-> wire.requestedModel] >>

\* The candidate lists over the chain's entries: the chain, each single entry, and
\* the chain reversed.
CandidateChains ==
  {Chain} \cup {<< Chain[n] >> : n \in 1..Len(Chain)}
    \cup {[n \in 1..Len(Chain) |-> Chain[Len(Chain) + 1 - n]]}

\* The instant the rules give one candidate: cooldownUntil if it is cooling,
\* resetRequestsAt if its remaining requests are low (the 60 s default if that
\* instant is unknown), otherwise now.
AvailableAt(s, t) ==
  IF s.present /\ s.coolingDown /\ s.cooldownUntil > 0 THEN s.cooldownUntil
  ELSE IF s.present /\ ~IsNull(s.remainingRequests)
            /\ Val(s.remainingRequests) < LowThreshold
    THEN IF IsNull(s.resetRequestsAt) THEN t + EarliestDefaultMs
         ELSE Val(s.resetRequestsAt)
  ELSE t

\* C25: for every tracker state and every candidate chain, earliestAvailableMs is
\* at least now and at most the minimum over the chain of cooldownUntil (cooling),
\* resetRequestsAt (remaining low) or now (otherwise).
C25_EarliestBetweenNowAndMinimum ==
  \A chain \in CandidateChains :
    /\ earliestAvailableMs(chain, state, now) >= now
    /\ \A n \in 1..Len(chain) :
         earliestAvailableMs(chain, state, now)
           <= AvailableAt(state[makeKey(chain[n].provider, chain[n].model)], now)

\* The vendor's breaker is half-open with its probe marked in flight.
ProbeInFlight(v) ==
  circuits[v].state = "half-open" /\ circuits[v].halfOpenTestInFlight

\* C26: every half-open probe that isAvailable grants in the router's attempt loop
\* is eventually resolved by a recordSuccess or recordFailure: no breaker stays
\* half-open with its probe marked in flight forever.
C26_ProbeEventuallyResolved ==
  \A v \in Vendors : ProbeInFlight(v) ~> ~ProbeInFlight(v)

\* C27: each queued job is passed to the drain callback at most once, for every
\* interleaving of enqueue calls, timer firings and drain passes.
C27_JobDispatchedAtMostOnce ==
  \A a, b \in 1..Len(dispatchLog) :
    a # b /\ dispatchLog[a].where = "memory" /\ dispatchLog[b].where = "memory"
      => dispatchLog[a].id # dispatchLog[b].id

\* C28: drain passes are serialized: on one instance at most one drain pass is
\* executing at any time.
C28_OneDrainPassAtATime ==
  Cardinality({d \in DrainIds : drains[d].pc # "idle"}) <= 1

\* C29: once a half-open probe is in flight for a vendor, the next outcome recorded
\* for it, a success or a failure of any status, clears the probe-in-flight flag;
\* and any recorded success resets failureCount to 0.
C29_NextOutcomeClearsProbe ==
  [][\A v \in Vendors :
       /\ CallRecordSuccess(v) =>
            circuits'[v].failureCount = 0 /\ ~circuits'[v].halfOpenTestInFlight
       /\ \A statusCode \in FailureStatuses :
            CallRecordFailure(v, statusCode) /\ circuits[v].halfOpenTestInFlight
              => ~circuits'[v].halfOpenTestInFlight]_vars

\* The transport failure of request r's call is handled as a 5xx answer would be:
\* the vendor's breaker records a failure and the loop goes on to the next
\* candidate (or finds the chain exhausted).
HandledLikeServerError(r) ==
  LET v == Chain[req[r].idx].provider
  IN /\ circuits'[v] = recordFailure(circuits[v], 500, now)
     /\ req'[r].pc \in {"calling", "exhausted"}
     /\ req'[r].pc = "calling" => req'[r].idx > req[r].idx

\* C30: a transport failure of a vendor call (an adapter error that is not a
\* ProviderError, other than a client abort) is treated like a 5xx: it increments
\* that vendor's breaker failure count and the router falls back to the next
\* candidate.
C30_TransportFailureFallsBack ==
  [][\A r \in Reqs : Throws(r) => HandledLikeServerError(r)]_vars

\* C31: a job in the map is not handed to the drain callback before createdAt + its
\* own estimatedWaitMs, whatever shorter waits other jobs were enqueued with.
C31_NotDispatchedBeforeOwnWait ==
  \A j \in JobIds :
    jobs[j].used /\ jobs[j].status = "processing"
      => now >= jobs[j].createdAt + jobs[j].estimatedWaitMs

\* C32: enqueuing a new job never postpones the drain already scheduled for the
\* jobs that are pending: after the enqueue the drain timer is set for an instant
\* no later than the one it was set for before.
C32_EnqueueNeverPostponesDrain ==
  [][\A r \in Reqs, wait \in WaitValues :
       CallEnqueue(r, wait) /\ ~IsNull(drainTimer)
         => ~IsNull(drainTimer') /\ Val(drainTimer') <= Val(drainTimer)]_vars

\* The key is avoided for no other reason than its remaining requests being low:
\* no cooldown is running.
LowOnly(s, t) ==
  /\ s.present
  /\ ~(s.coolingDown /\ t < s.cooldownUntil)
  /\ ~IsNull(s.remainingRequests)
  /\ Val(s.remainingRequests) < LowThreshold

\* C33: a (vendor, model) avoided only because its remaining requests are low is
\* available again (shouldAvoid returns false) once its resetRequestsAt has passed.
C33_AvailableAfterReset ==
  \A key \in Keys :
    LowOnly(state[key], now) /\ ~IsNull(state[key].resetRequestsAt)
      /\ now >= Val(state[key].resetRequestsAt)
      => ~shouldAvoidRet(state[key], now)

\* The retention of a finished job: 60 s in the map, RESULT_TTL_S in the store.
RetentionMs(h) == IF h.where = "store" THEN ResultTtlMs ELSE JobRetentionMs

\* When the job of a handle was created (the retention cannot end before
\* createdAt + the retention period).
CreatedAtOf(h) ==
  IF h.where = "store" THEN redis.job[h.id].createdAt ELSE jobs[h.id].createdAt

\* C34: for a job id returned by an async enqueue, poll never answers not_found
\* before the job is terminal and its retention period has ended, whatever the
\* interleaving of the poll's store commands with a drain pass.
C34_PollNeverNotFoundEarly ==
  wire.pc = "polled" /\ wire.ans = "not_found"
    => now >= CreatedAtOf(wire.h) + RetentionMs(wire.h)

\* A load that did not fail has set every entry stored as JSON and no other.
LoadedWhatParses(which) ==
  \A key \in DOMAIN StoreOf(which) :
    LET raw == StoreOf(which)[key]
        mem == IF which = "cb" THEN circuits[key] ELSE state[key]
        empty == IF which = "cb" THEN NewCircuit ELSE NoState
    IN mem = IF ~IsNull(raw) /\ Val(raw).json THEN Val(raw).v ELSE empty

\* C35: after startup, a load from the store during which any error occurred has
\* left its in-memory map empty (no partially loaded entries), and a load without
\* an error has skipped the entries that are malformed JSON and set the others.
C35_FailedLoadStartsEmpty ==
  wire.pc = "up" =>
    /\ wire.cb.failed => circuits = [v \in Vendors |-> NewCircuit]
    /\ wire.rl.failed => state = [k \in Keys |-> NoState]
    /\ ~wire.cb.failed => LoadedWhatParses("cb")
    /\ ~wire.rl.failed => LoadedWhatParses("rl")

\* C36: RateLimitTracker.update with a status that is neither 429 nor 2xx leaves
\* the remaining requests, their reset instant and the cooldown of the
\* (vendor, model) as they were.
C36_ErrorStatusLeavesEntry ==
  [][\A key \in Keys, rem \in RemainingValues, reset \in ResetValues :
       CallUpdate(key, 500, rem, reset)
         => /\ state'[key].remainingRequests = state[key].remainingRequests
            /\ state'[key].resetRequestsAt = state[key].resetRequestsAt
            /\ state'[key].coolingDown = state[key].coolingDown
            /\ state'[key].cooldownUntil = state[key].cooldownUntil]_vars

\* C37: once the client's abort signal has fired for a request waiting in the sync
\* queue, its job is cancelled: no drain pass hands it to the drain callback
\* afterwards.
C37_AbortedJobNotDispatched ==
  [][wire.pc = "aborted" /\ Len(dispatchLog') > Len(dispatchLog)
       => dispatchLog'[Len(dispatchLog')].id # wire.job]_vars

\* C38: in every reachable state of an in-memory breaker, for each vendor the
\* probe-in-flight flag is set exactly when the state is half-open, and the state
\* is closed exactly when failureCount is below the failure threshold.
C38_FlagIffHalfOpenClosedIffBelow ==
  \A v \in Vendors :
    /\ circuits[v].halfOpenTestInFlight <=> circuits[v].state = "half-open"
    /\ circuits[v].state = "closed" <=> circuits[v].failureCount < FailureThreshold

\* A breaker reopened by a failed probe while another vendor's breaker is
\* half-open with its probe in flight, and one closed again after failures.
C38_Witness ==
  /\ \E v \in Vendors :
       circuits[v].state = "half-open" /\ circuits[v].halfOpenTestInFlight
         /\ circuits[v].failureCount >= FailureThreshold
  /\ \E v \in Vendors :
       circuits[v].state = "open" /\ openLog[v] > MsPerSecond + CooldownMs

\* C39: the Anthropic and Google stream normalizers are insensitive to chunk
\* boundaries: two runs over the same upstream bytes, split into reads in two
\* ways, have produced the same output sequence when both are over.
C39_SameOutputForAnyChunking ==
  wire.pc = "normalizing" /\ wire.a.over /\ wire.b.over => wire.a.out = wire.b.out

\* C40: OpenAI body -> translateRequest -> anthropicToOpenAI preserves messages,
\* model, temperature, top_p, stream and max_tokens and drops frequency_penalty,
\* presence_penalty and logprobs, for every body of the bounded set.
C40_RoundTripPreserves ==
  wire.pc = "internal" =>
    /\ wire.internal.messages = wire.body.messages
    /\ wire.internal.model = wire.body.model
    /\ wire.internal.temperature = wire.body.temperature
    /\ wire.internal.top_p = wire.body.top_p
    /\ wire.internal.stream = wire.body.stream
    /\ wire.internal.max_tokens = wire.body.max_tokens
    /\ DOMAIN wire.internal
         \cap {"frequency_penalty", "presence_penalty", "logprobs"} = {}
====
